---- MODULE Spec2Model ----
(***************************************************************************)
(* Model of the Ember WhatsApp API core: the dashboard/report manager      *)
(* (dashboardService), the campaign dispatcher (messageService) and the    *)
(* metrics engine (analyticsService).                                      *)
(***************************************************************************)
EXTENDS Integers, Sequences, FiniteSets, TLC

VARIABLES
    dashboards,     \* website.dashboards: dashboard id -> [stored, reports]
    projects,       \* clients.projects: project id -> set of dashboard ids
    reqReports,     \* the `reports` array of the create / update request body
    last,           \* outcome of the last dashboardService call
    campaigns,      \* campaigns database: project id -> [exists, docs]
    sendPc,         \* where the sendTemplateMessages call stands
    sendProject,    \* projectId of the call
    phone_numbers,  \* recipients of the call
    responses,      \* what the provider answered to the call of each recipient
    sendPromises,   \* the promise of each recipient's send
    outOfOrder,     \* a send settled before the send of an earlier recipient
    campaignData,   \* the campaign record the call built
    saveFailedAt,   \* the step of saveCampaign that failed, if it ran
    returnValue,    \* what the call returned
    sendAttempts,   \* axios.post calls per recipient and insertOne calls of the call
    metricsPc,      \* where the processMetrics call stands
    metricsProject, \* projectId of the call
    requestedMetrics, \* the metrics the call was asked for
    metricsFilters, \* the filters of the call
    metricPromises, \* the promise of each metric's processMetric
    readFailedAt,   \* the step of each metric's store read that threw, if any
    stats,          \* the statistics the call returned
    answer,         \* outcome of the last direct call of a read function
    saves,          \* the saveCampaign calls that run side by side
    mutations       \* the dashboard mutations that run side by side

dashVars == <<dashboards, projects, reqReports, last>>
sendVars == <<campaigns, sendPc, sendProject, phone_numbers, responses, sendPromises,
              outOfOrder, campaignData, saveFailedAt, returnValue, sendAttempts>>

processVars == <<metricsPc, metricsProject, requestedMetrics, metricsFilters,
                 metricPromises, readFailedAt, stats>>
metricVars == <<metricsPc, metricsProject, requestedMetrics, metricsFilters,
                metricPromises, readFailedAt, stats, answer>>

raceVars == <<saves, mutations>>

vars == <<dashVars, sendVars, metricVars, raceVars>>

(***************************************************************************)
(* Bounds.                                                                 *)
(***************************************************************************)
\* Longest `reports` array of a create / update request.
MaxBatch == 3
\* Most recipients of one sendTemplateMessages call.
MaxRecipients == 3
\* addReportToDashboard is not called on a dashboard that holds this many.
MaxReports == 3
\* Most metrics of one processMetrics call.
MaxMetrics == 2
\* Most results of the first campaign of an enumerated store.
MaxResults == 2
\* Instants of one day.
TicksPerDay == 2
\* Most calls one of the callers that run side by side makes.
MaxCalls == 2
\* Most recipients of a dispatch that runs beside a processMetrics call.
MaxSideRecipients == 1

(***************************************************************************)
(* JavaScript values.  A position is `undefined` or a number; a number is  *)
(* kept as twice its value, so that n + 0.5 is representable.              *)
(***************************************************************************)
Undefined == [kind |-> "undefined", twice |-> 0]
Num(n) == [kind |-> "number", twice |-> 2 * n]
Half(n) == [kind |-> "number", twice |-> 2 * n + 1]
IsInteger(x) == x.kind = "number" /\ x.twice % 2 = 0
Includes(s, x) == \E i \in 1..Len(s) : s[i] = x
SeqRange(s) == {s[i] : i \in 1..Len(s)}

\* String.prototype.trim on the names the requests use.
Trim(s) ==
    CASE s = " " -> ""
      [] s = " Sales " -> "Sales"
      [] s = " +1000" -> "+1000"
      [] OTHER -> s

\* [...a].sort((a, b) => a - b)
RECURSIVE SortAsc(_)
SortAsc(s) ==
    IF s = <<>> THEN <<>>
    ELSE LET m == CHOOSE i \in 1..Len(s) :
                      \A j \in 1..Len(s) :
                          s[i].twice < s[j].twice \/ (s[i].twice = s[j].twice /\ i <= j)
         IN  <<s[m]>> \o SortAsc([k \in 1..(Len(s) - 1) |-> IF k < m THEN s[k] ELSE s[k + 1]])

(***************************************************************************)
(* Identifiers.  new ObjectId() yields an id no document or report holds;  *)
(* it is modelled as the first unused id of a pool.                        *)
(***************************************************************************)
ProjectIds == {"p1", "p2"}
DashboardIdPool == <<"d1">>
DashboardIds == SeqRange(DashboardIdPool)
ReportIdPool == <<"g1", "g2", "g3", "g4", "g5", "g6", "g7", "g8">>
UserReportIds == {"u1"}
ReportIds == SeqRange(ReportIdPool) \cup UserReportIds

FirstUnused(pool, used) ==
    LET free == {i \in 1..Len(pool) : pool[i] \notin used}
    IN  IF free = {} THEN ""
        ELSE pool[CHOOSE i \in free : \A j \in free : i <= j]

StoredReportIds ==
    UNION {{dashboards[d].reports[i]._id : i \in 1..Len(dashboards[d].reports)} :
           d \in DashboardIds}

(***************************************************************************)
(* dashboardService: validation and normalisation.                         *)
(***************************************************************************)
validReportTypes == {"number", "pie", "bar"}
validMetricTypes == {"messagesSent", "campaignsTotal", "replies", "views", "errors"}

\* The error messages one metric list adds, in the order of the forEach.
RECURSIVE MetricErrors(_, _)
MetricErrors(metrics, i) ==
    IF i > Len(metrics) THEN <<>>
    ELSE (IF metrics[i].type = "" THEN <<"Metric must have a type">> ELSE <<>>)
         \o (IF metrics[i].type # "" /\ metrics[i].type \notin validMetricTypes
             THEN <<"Invalid metric type">> ELSE <<>>)
         \o MetricErrors(metrics, i + 1)

validateReport(report, existingPositions) ==
    (IF report.name = "" \/ Trim(report.name) = ""
     THEN <<"Report name is required">> ELSE <<>>)
    \o (IF report.type = "" \/ report.type \notin validReportTypes
        THEN <<"Report type is required and must be one of">> ELSE <<>>)
    \o (IF report.metrics = <<>>
        THEN <<"Report must have at least one metric with a type">>
        ELSE MetricErrors(report.metrics, 1))
    \o (IF report.position # Undefined
        THEN (IF ~IsInteger(report.position) \/ report.position.twice < 2
              THEN <<"Position must be a positive integer">> ELSE <<>>)
             \o (IF Includes(existingPositions, report.position)
                 THEN <<"Position already exists">> ELSE <<>>)
        ELSE <<>>)

\* A next position that is one more than the number of positions in use.
getNextPositionAfterLast(existingPositions) == Num(Len(existingPositions) + 1)

getNextPosition(existingPositions) ==
    IF Len(existingPositions) = 0 THEN Num(1)
    ELSE LET sortedPositions == SortAsc(existingPositions)
             gaps == {i \in 1..Len(sortedPositions) : sortedPositions[i] # Num(i)}
         IN  IF gaps # {}
             THEN Num(CHOOSE i \in gaps : \A j \in gaps : i <= j)
             ELSE Num(Len(sortedPositions) + 1)

\* normalizeReports without its final check of the positions.
SequentialErrorSkipped(existingPositions) == <<>>

\* The check after the forEach of normalizeReports: the message thrown, or <<>>.
SequentialError(existingPositions) ==
    IF Len(existingPositions) = 0 THEN <<>>
    ELSE LET sortedPositions == SortAsc(existingPositions)
         IN  IF sortedPositions[1] # Num(1)
             THEN <<"Positions must start from 1">>
             ELSE IF \E i \in 1..Len(sortedPositions) : sortedPositions[i] # Num(i)
                  THEN <<"Positions must be sequential starting from 1. Found gap">>
                  ELSE <<>>

\* The forEach of normalizeReports from index i on; `usedIds` are the ids that
\* exist already, for new ObjectId().
RECURSIVE NormalizeFrom(_, _, _, _, _)
NormalizeFrom(reports, i, existingPositions, normalizedReports, usedIds) ==
    IF i > Len(reports)
    THEN [error |-> SequentialError(existingPositions),
          reports |-> IF SequentialError(existingPositions) = <<>>
                      THEN normalizedReports ELSE <<>>]
    ELSE LET report == reports[i]
             errors == validateReport(report, existingPositions)
             reportId == IF report._id # "" THEN report._id
                         ELSE FirstUnused(ReportIdPool, usedIds)
             position == IF report.position = Undefined
                         THEN getNextPosition(existingPositions)
                         ELSE report.position
         IN  IF errors # <<>>
             THEN [error |-> <<"Report at index">> \o errors, reports |-> <<>>]
             ELSE NormalizeFrom(reports, i + 1,
                                Append(existingPositions, position),
                                Append(normalizedReports,
                                       [_id |-> reportId,
                                        position |-> position,
                                        name |-> Trim(report.name),
                                        type |-> report.type,
                                        metrics |-> report.metrics]),
                                usedIds \cup {reportId})

normalizeReports(reports, usedIds) == NormalizeFrom(reports, 1, <<>>, <<>>, usedIds)

(***************************************************************************)
(* Request values.                                                         *)
(***************************************************************************)
someMetrics == <<[type |-> "views"]>>
BatchReport(id, position, name) ==
    [_id |-> id, position |-> position, name |-> name, type |-> "pie",
     metrics |-> someMetrics]

\* The request bodies of the exhaustive normalizeReports check: every array of
\* at most MaxBatch reports over these positions and names.
BatchPositions == {Undefined, Num(0), Num(1), Num(2), Num(3), Half(1)}
BatchReports == {BatchReport("", p, n) : p \in BatchPositions, n \in {"", "Sales"}}
Batches == UNION {[1..n -> BatchReports] : n \in 0..MaxBatch}

\* The request bodies create and update are called with in SpecDash.
SampleBatches ==
    {<<>>,
     <<BatchReport("", Undefined, "Sales")>>,
     <<BatchReport("u1", Num(1), "Sales"), BatchReport("", Undefined, " Sales ")>>,
     <<BatchReport("", Num(2), "Sales"), BatchReport("", Num(1), "Sales")>>,
     <<BatchReport("", Num(1), "Sales"), BatchReport("", Num(3), "Sales")>>,
     <<BatchReport("", Num(1), "Sales"), BatchReport("", Num(1), "Sales")>>,
     <<BatchReport("", Num(1), ""), BatchReport("", Num(2), "Sales")>>,
     <<[BatchReport("", Undefined, "Sales") EXCEPT !.metrics = <<[type |-> "bogus"]>>]>>,
     <<BatchReport("", Num(2), "Sales"), BatchReport("u1", Num(1), "Sales"),
       BatchReport("", Num(3), "Sales")>>,
     <<BatchReport("", Num(1), "Sales"), BatchReport("", Num(3), "Sales"),
       BatchReport("u1", Num(2), "Sales")>>,
     <<BatchReport("", Undefined, "Sales"), BatchReport("", Num(3), "Sales"),
       BatchReport("", Undefined, "Sales")>>}

AddPositions == {Undefined, Num(-1), Num(0), Num(1), Num(5), Half(1)}
AddReport(id, position, name, type, metrics) ==
    [_id |-> id, position |-> position, name |-> name, type |-> type, metrics |-> metrics]
\* The add-report requests: a valid report with every id and position, and
\* reports with one fault in name, type or metrics.
AddReports ==
    {AddReport(i, p, " Sales ", "pie", someMetrics) : i \in {"", "u1"}, p \in AddPositions}
    \cup {AddReport("", Undefined, " ", "pie", someMetrics),
          AddReport("", Num(1), "Sales", "line", someMetrics),
          AddReport("", Undefined, "Sales", "pie", <<>>),
          AddReport("", Undefined, "Sales", "pie", <<[type |-> "views"], [type |-> "bogus"]>>),
          AddReport("", Undefined, "Sales", "pie", <<[type |-> ""]>>)}

\* "pX" names no project document.
ProjectInputs == ProjectIds \cup {"pX"}
DashboardInputs == DashboardIds
ReportIdInputs == {"u1", "g1", "g2", "g9"}

NoError == <<>>
NoReportData == [_id |-> "", position |-> Undefined, name |-> "", type |-> "", metrics |-> <<>>]
NoReturn == [given |-> FALSE, _id |-> "", reports |-> <<>>]
Returned(id, reports) == [given |-> TRUE, _id |-> id, reports |-> reports]
\* What the last call was given and what it answered.
Outcome(op, projectId, dashboardId, reports, reportData, reportId, error, ret) ==
    [op |-> op, projectId |-> projectId, dashboardId |-> dashboardId,
     reports |-> reports, reportData |-> reportData, reportId |-> reportId,
     error |-> error, ret |-> ret]

(***************************************************************************)
(* dashboardService: the operations.                                       *)
(***************************************************************************)
\* An access check that lets every project in.
hasAccessAlways(projectId, dashboardId) == TRUE

\* Array.prototype.some over project.dashboards
hasAccess(projectId, dashboardId) == dashboardId \in projects[projectId]

\* The id, project, access and existence checks the four dashboard operations
\* begin with: the message thrown, or NoError.
AccessError(dashboardId, projectId) ==
    IF dashboardId = "" THEN <<"Dashboard ID is required">>
    ELSE IF projectId = "" THEN <<"Project ID is required">>
    ELSE IF projectId \notin DOMAIN projects THEN <<"Project not found">>
    ELSE IF ~hasAccess(projectId, dashboardId)
         THEN <<"Access denied: Project does not have access to this dashboard">>
    ELSE IF ~dashboards[dashboardId].stored THEN <<"Dashboard not found">>
    ELSE NoError

\* A renumbering that keeps every position as it is.
RenumberKept(reports) == reports

\* report.position = index + 1 for every report of the list
Renumber(reports) ==
    [i \in 1..Len(reports) |-> [reports[i] EXCEPT !.position = Num(i)]]

createDashboard(projectId, reports, membershipUpdateFails) ==
    LET dashboardId == FirstUnused(DashboardIdPool,
                                   {d \in DashboardIds : dashboards[d].stored})
        normalized == normalizeReports(reports, StoredReportIds)
    IN  /\ dashboardId # ""
        /\ IF normalized.error # NoError
           THEN /\ last' = Outcome("createDashboard", projectId, "", reports, NoReportData,
                                   "", normalized.error, NoReturn)
                /\ UNCHANGED <<dashboards, projects>>
           ELSE /\ dashboards' = [dashboards EXCEPT
                       ![dashboardId] = [stored |-> TRUE, reports |-> normalized.reports]]
                /\ projects' =
                       IF projectId # "" /\ projectId \in DOMAIN projects
                          /\ ~membershipUpdateFails
                       THEN [projects EXCEPT ![projectId] = @ \cup {dashboardId}]
                       ELSE projects
                /\ last' = Outcome("createDashboard", projectId, dashboardId, reports,
                                   NoReportData, "", NoError, Returned(dashboardId, <<>>))
        /\ UNCHANGED reqReports

getDashboardById(dashboardId, projectId) ==
    LET error == AccessError(dashboardId, projectId)
    IN  /\ last' = Outcome("getDashboardById", projectId, dashboardId, <<>>, NoReportData,
                           "", error,
                           IF error = NoError
                           THEN Returned(dashboardId, dashboards[dashboardId].reports)
                           ELSE NoReturn)
        /\ UNCHANGED <<dashboards, projects, reqReports>>

\* `reports` is the array of the request body when reportsProvided, else the
\* body has no `reports` and the stored ones are written back.
updateDashboard(dashboardId, projectId, reportsProvided, reports) ==
    LET accessError == AccessError(dashboardId, projectId)
        normalized == IF reportsProvided
                      THEN normalizeReports(reports, StoredReportIds)
                      ELSE [error |-> NoError, reports |-> dashboards[dashboardId].reports]
        error == IF accessError # NoError THEN accessError ELSE normalized.error
    IN  /\ IF error # NoError
           THEN /\ last' = Outcome("updateDashboard", projectId, dashboardId, reports,
                                   NoReportData, "", error, NoReturn)
                /\ UNCHANGED dashboards
           ELSE /\ dashboards' = [dashboards EXCEPT ![dashboardId].reports = normalized.reports]
                /\ last' = Outcome("updateDashboard", projectId, dashboardId, reports,
                                   NoReportData, "", NoError,
                                   Returned(dashboardId, normalized.reports))
        /\ UNCHANGED <<projects, reqReports>>

\* The name, type and metrics checks of addReportToDashboard: the first message
\* thrown, or NoError.  The position of the request is not examined.
AddReportError(reportData) ==
    IF reportData.name = "" \/ Trim(reportData.name) = ""
    THEN <<"Report name is required">>
    ELSE IF reportData.type = "" \/ reportData.type \notin validReportTypes
    THEN <<"Report type is required and must be one of">>
    ELSE IF reportData.metrics = <<>>
    THEN <<"Report must have at least one metric with a type">>
    ELSE IF MetricErrors(reportData.metrics, 1) # <<>>
    THEN <<MetricErrors(reportData.metrics, 1)[1]>>
    ELSE NoError

ExistingPositions(reports) == [i \in 1..Len(reports) |-> reports[i].position]

NewReport(reportData, existingReports, usedIds) ==
    [_id |-> IF reportData._id # "" THEN reportData._id
             ELSE FirstUnused(ReportIdPool, usedIds),
     position |-> IF reportData.position = Undefined
                  THEN getNextPosition(ExistingPositions(existingReports))
                  ELSE reportData.position,
     name |-> Trim(reportData.name),
     type |-> reportData.type,
     metrics |-> reportData.metrics]

\* addReportToDashboard keeping the position the request asked for.
AllReportsAsRequested(existingReports, newReport) == Append(existingReports, newReport)

\* The list addReportToDashboard stores: the new report appended, then renumbered.
AllReports(existingReports, newReport) == Renumber(Append(existingReports, newReport))

addReportToDashboard(dashboardId, projectId, reportData) ==
    LET accessError == AccessError(dashboardId, projectId)
        error == IF accessError # NoError THEN accessError ELSE AddReportError(reportData)
        existingReports == dashboards[dashboardId].reports
        allReports == AllReports(existingReports,
                                 NewReport(reportData, existingReports, StoredReportIds))
    IN  /\ IF error # NoError
           THEN /\ last' = Outcome("addReportToDashboard", projectId, dashboardId, <<>>,
                                   reportData, "", error, NoReturn)
                /\ UNCHANGED dashboards
           ELSE /\ Len(existingReports) < MaxReports
                /\ dashboards' = [dashboards EXCEPT ![dashboardId].reports = allReports]
                /\ last' = Outcome("addReportToDashboard", projectId, dashboardId, <<>>,
                                   reportData, "", NoError, Returned(dashboardId, allReports))
        /\ UNCHANGED <<projects, reqReports>>

\* Array.prototype.findIndex by report id: 0 stands for -1 (not found).
findIndex(reports, reportId) ==
    LET hits == {i \in 1..Len(reports) : reports[i]._id = reportId}
    IN  IF hits = {} THEN 0 ELSE CHOOSE i \in hits : \A j \in hits : i <= j

\* existingReports.filter((r, index) => index !== reportIndex)
RemoveAt(reports, reportIndex) ==
    [k \in 1..(Len(reports) - 1) |-> IF k < reportIndex THEN reports[k] ELSE reports[k + 1]]

\* removeReportFromDashboard without the renumbering.
UpdatedReportsNotRenumbered(existingReports, reportIndex) ==
    RemoveAt(existingReports, reportIndex)

\* The list removeReportFromDashboard stores.
UpdatedReports(existingReports, reportIndex) ==
    Renumber(RemoveAt(existingReports, reportIndex))

removeReportFromDashboard(dashboardId, projectId, reportId) ==
    LET idError == IF dashboardId = "" THEN <<"Dashboard ID is required">>
                   ELSE IF projectId = "" THEN <<"Project ID is required">>
                   ELSE IF reportId = "" THEN <<"Report ID is required">>
                   ELSE NoError
        accessError == IF idError # NoError THEN idError
                       ELSE AccessError(dashboardId, projectId)
        existingReports == dashboards[dashboardId].reports
        reportIndex == findIndex(existingReports, reportId)
        error == IF accessError # NoError THEN accessError
                 ELSE IF reportIndex = 0 THEN <<"Report not found">>
                 ELSE NoError
        updatedReports == UpdatedReports(existingReports, reportIndex)
    IN  /\ IF error # NoError
           THEN /\ last' = Outcome("removeReportFromDashboard", projectId, dashboardId,
                                   <<>>, NoReportData, reportId, error, NoReturn)
                /\ UNCHANGED dashboards
           ELSE /\ dashboards' = [dashboards EXCEPT ![dashboardId].reports = updatedReports]
                /\ last' = Outcome("removeReportFromDashboard", projectId, dashboardId,
                                   <<>>, NoReportData, reportId, NoError,
                                   Returned(dashboardId, updatedReports))
        /\ UNCHANGED <<projects, reqReports>>

(***************************************************************************)
(* The dashboard routes: the status a thrown error is answered with.  An   *)
(* error is the list of the parts of its message; includes() is true of a  *)
(* message when one of its parts holds the word.                           *)
(***************************************************************************)
\* The words, among those the routes look for, that a part of a message holds.
WordsOf(part) ==
    CASE part = "Report name is required" -> {"required"}
      [] part = "Report type is required and must be one of" -> {"required", "must"}
      [] part = "Report must have at least one metric with a type" -> {"must"}
      [] part = "Metric must have a type" -> {"must"}
      [] part = "Position must be a positive integer" -> {"Position", "must"}
      [] part = "Position already exists" -> {"Position"}
      [] part = "Positions must start from 1" -> {"Position", "must"}
      [] part = "Positions must be sequential starting from 1. Found gap"
            -> {"Position", "must", "sequential"}
      [] part = "Dashboard ID is required" -> {"required"}
      [] part = "Project ID is required" -> {"required"}
      [] part = "Access denied: Project does not have access to this dashboard"
            -> {"Access denied"}
      [] OTHER -> {}
MessageIncludes(error, word) == \E i \in 1..Len(error) : word \in WordsOf(error[i])
isValidationError(error) ==
    \E word \in {"must", "required", "invalid", "Position", "sequential"} :
        MessageIncludes(error, word)

\* router.post('/dashboard')
CreateStatus(error) ==
    IF error = NoError THEN 201
    ELSE IF isValidationError(error) THEN 400
    ELSE 500
\* router.put('/dashboard/:id') and router.post('/dashboard/:id/report')
DashboardStatus(error) ==
    IF error = NoError THEN 200
    ELSE IF error \in {<<"Dashboard ID is required">>, <<"Project ID is required">>} THEN 400
    ELSE IF error \in {<<"Project not found">>, <<"Dashboard not found">>} THEN 404
    ELSE IF MessageIncludes(error, "Access denied") THEN 403
    ELSE IF isValidationError(error) THEN 400
    ELSE 500
RouteStatus(op, error) ==
    IF op = "createDashboard" THEN CreateStatus(error) ELSE DashboardStatus(error)

(***************************************************************************)
(* messageService: sendTemplateMessages and saveCampaign.                  *)
(***************************************************************************)
Phones == {"+1000", "+1001"}
RecipientLists == UNION {[1..n -> Phones] : n \in 0..MaxRecipients}
\* The id the provider gives the message of the idx-th call.
MessageIds == <<"M1", "M2", "M3", "M4">>
JsUndefined == "undefined"

\* What axios.post does for one call: it resolves with a response, or throws
\* an error that may carry a response, whose data may be missing or may lack
\* the error field.
Sent == [resolved |-> TRUE, hasResponse |-> TRUE, hasData |-> TRUE,
         dataError |-> JsUndefined, message |-> ""]
NetworkError == [resolved |-> FALSE, hasResponse |-> FALSE, hasData |-> FALSE,
                 dataError |-> JsUndefined, message |-> "Network Error"]
RejectedWithPayload == [resolved |-> FALSE, hasResponse |-> TRUE, hasData |-> TRUE,
                        dataError |-> "provider error payload",
                        message |-> "Request failed with status code 400"]
RejectedNoErrorField == [resolved |-> FALSE, hasResponse |-> TRUE, hasData |-> TRUE,
                         dataError |-> JsUndefined,
                         message |-> "Request failed with status code 404"]
RejectedNoPayload == [resolved |-> FALSE, hasResponse |-> TRUE, hasData |-> FALSE,
                      dataError |-> JsUndefined,
                      message |-> "Request failed with status code 500"]
ProviderOutcomes ==
    {Sent, NetworkError, RejectedWithPayload, RejectedNoErrorField, RejectedNoPayload}
NoResponseYet == [resolved |-> FALSE, hasResponse |-> FALSE, hasData |-> FALSE,
                  dataError |-> JsUndefined, message |-> ""]

NoResult == [phoneNumber |-> "", messageId |-> JsUndefined, status |-> "",
             success |-> FALSE, error |-> JsUndefined]
Pending == [state |-> "pending", value |-> NoResult]
Fulfilled(result) == [state |-> "fulfilled", value |-> result]
Rejected == [state |-> "rejected", value |-> NoResult]

\* error.response?.data.error of the catch block: it throws a TypeError when
\* the error has a response whose data is undefined.
ErrorFieldThrows(error) == error.hasResponse /\ ~error.hasData

\* error.response?.data.error || error.message
ErrorField(error) ==
    IF error.hasResponse /\ error.dataError # JsUndefined
    THEN error.dataError ELSE error.message

\* The async callback of phone_numbers.map for one recipient, once its
\* axios.post has settled with `outcome`: the state of its promise.
SendPromise(phoneNumber, idx, outcome) ==
    IF outcome.resolved
    THEN Fulfilled([phoneNumber |-> phoneNumber, messageId |-> MessageIds[idx],
                    status |-> "sent", success |-> TRUE, error |-> JsUndefined])
    ELSE IF ErrorFieldThrows(outcome) THEN Rejected
    ELSE Fulfilled([phoneNumber |-> phoneNumber, messageId |-> JsUndefined,
                    status |-> "failed", success |-> FALSE, error |-> ErrorField(outcome)])

NumSettled(promises) == Cardinality({i \in 1..Len(promises) : promises[i].state # "pending"})

\* The promises filled in the order in which the sends complete.
SettleInCompletionOrder(promises, idx, promise) ==
    [promises EXCEPT ![NumSettled(promises) + 1] = promise]

\* The promise of the idx-th recipient settles: sendPromises keeps the order
\* of phone_numbers.
Settle(promises, idx, promise) == [promises EXCEPT ![idx] = promise]

\* await Promise.all(sendPromises), once every promise is fulfilled
PromiseAll(promises) == [i \in 1..Len(promises) |-> promises[i].value]

\* results.filter(pred).length
CountSuccess(results) == Cardinality({i \in 1..Len(results) : results[i].success})
CountFailure(results) == Cardinality({i \in 1..Len(results) : ~results[i].success})

NoCampaign == [_id |-> "", total |-> 0, success |-> 0, failed |-> 0, results |-> <<>>]
CampaignIdPool == <<"c1", "c2", "c3">>
StoredCampaignIds ==
    UNION {{campaigns[p].docs[i]._id : i \in 1..Len(campaigns[p].docs)} : p \in ProjectIds}

\* A campaign record whose total is the number of successes.
CampaignDataTotalOfSuccesses(campaignId, recipients, results) ==
    [_id |-> campaignId, total |-> CountSuccess(results), success |-> CountSuccess(results),
     failed |-> CountFailure(results), results |-> results]

\* The campaignData object of sendTemplateMessages.
CampaignData(campaignId, recipients, results) ==
    [_id |-> campaignId, total |-> Len(recipients), success |-> CountSuccess(results),
     failed |-> CountFailure(results), results |-> results]

SaveSteps == <<"getDbConnection", "listCollections", "createCollection", "insertOne">>

\* The calls made so far: axios.post per recipient, insertOne of saveCampaign.
NoAttempts == [posts |-> <<>>, inserts |-> 0]
\* A callback that posts again when its post has failed.
axiosPostAgainOnFailure(posts, idx, outcome) ==
    IF outcome.resolved THEN posts ELSE [posts EXCEPT ![idx] = @ + 1]

\* The posts made once the post of recipient idx has settled: the callback
\* returns its result from the try or from the catch and posts no more.
axiosPost(posts, idx, outcome) == posts
\* A save that repeats a failed insert once.
insertOneCallsRepeated(failAt) ==
    IF failAt = "insertOne" THEN 2 ELSE IF failAt = "none" THEN 1 ELSE 0

\* The insertOne calls of one saveCampaign in which step failAt failed: the
\* insert is reached when no earlier step threw, and is not repeated.
insertOneCalls(failAt) == IF failAt \in {"none", "insertOne"} THEN 1 ELSE 0
\* saveCampaign letting the failure of a step reach its caller.
saveCampaignRethrows(failAt) == failAt # "none"

\* Whether saveCampaign throws when step failAt fails: its catch logs the
\* error and returns.
saveCampaignThrows(failAt) == FALSE

\* A save that leaves the record as the only one of the collection.
saveCampaignReplacing(collection, record, failAt) ==
    [exists |-> TRUE, docs |-> <<record>>]

\* The collection of the project after saveCampaign in which step failAt
\* failed ("none": no step failed).
saveCampaign(collection, record, failAt) ==
    IF failAt \in {"getDbConnection", "listCollections"} THEN collection
    ELSE IF ~collection.exists /\ failAt = "createCollection" THEN collection
    ELSE IF failAt = "insertOne" THEN [collection EXCEPT !.exists = TRUE]
    ELSE [exists |-> TRUE, docs |-> Append(collection.docs, record)]

SendInit ==
    /\ campaigns = [p \in ProjectIds |-> [exists |-> FALSE, docs |-> <<>>]]
    /\ sendPc = "idle"
    /\ sendProject = ""
    /\ phone_numbers = <<>>
    /\ responses = <<>>
    /\ sendPromises = <<>>
    /\ outOfOrder = FALSE
    /\ campaignData = NoCampaign
    /\ saveFailedAt = "not called"
    /\ returnValue = NoCampaign
    /\ sendAttempts = NoAttempts

\* A call begins: every recipient's request is issued before the first await.
\* Calls do not overlap, and no call begins once a call has stored its
\* campaign.
SendTemplateMessages ==
    /\ sendPc \in {"idle", "returned", "raised"}
    /\ \A i \in 1..Len(sendPromises) : sendPromises[i].state # "pending"
    /\ saveFailedAt # "none"
    /\ \E recipients \in RecipientLists, projectId \in ProjectIds :
          /\ phone_numbers' = recipients
          /\ sendProject' = projectId
          /\ responses' = [i \in 1..Len(recipients) |-> NoResponseYet]
          /\ sendPromises' = [i \in 1..Len(recipients) |-> Pending]
          /\ sendAttempts' = [posts |-> [i \in 1..Len(recipients) |-> 1], inserts |-> 0]
    /\ sendPc' = "awaitAll"
    /\ outOfOrder' = FALSE
    /\ campaignData' = NoCampaign
    /\ saveFailedAt' = "not called"
    /\ returnValue' = NoCampaign
    /\ UNCHANGED <<campaigns, dashVars, metricVars, raceVars>>

\* The provider answers the call of one recipient.
ProviderSettles ==
    /\ \E idx \in 1..Len(phone_numbers), outcome \in ProviderOutcomes :
          /\ responses[idx] = NoResponseYet
          /\ responses' = [responses EXCEPT ![idx] = outcome]
          /\ sendPromises' = Settle(sendPromises, idx,
                                    SendPromise(phone_numbers[idx], idx, outcome))
          /\ outOfOrder' = (outOfOrder
                            \/ \E j \in 1..(idx - 1) : sendPromises[j].state = "pending")
          /\ sendAttempts' = [sendAttempts EXCEPT
                                 !.posts = axiosPost(@, idx, outcome)]
    /\ UNCHANGED <<campaigns, sendPc, sendProject, phone_numbers, campaignData,
                   saveFailedAt, returnValue, dashVars, metricVars, raceVars>>

\* Promise.all resolves: the tallies and the campaign record are built.
BuildCampaign ==
    /\ sendPc = "awaitAll"
    /\ \A i \in 1..Len(sendPromises) : sendPromises[i].state = "fulfilled"
    /\ campaignData' = CampaignData(FirstUnused(CampaignIdPool, StoredCampaignIds),
                                    phone_numbers, PromiseAll(sendPromises))
    /\ sendPc' = "saving"
    /\ UNCHANGED <<campaigns, sendProject, phone_numbers, responses, sendPromises,
                   outOfOrder, saveFailedAt, returnValue, sendAttempts, dashVars,
                   metricVars, raceVars>>

\* Promise.all rejects with the first rejection: the call throws.
SendRaises ==
    /\ sendPc = "awaitAll"
    /\ \E i \in 1..Len(sendPromises) : sendPromises[i].state = "rejected"
    /\ sendPc' = "raised"
    /\ UNCHANGED <<campaigns, sendProject, phone_numbers, responses, sendPromises,
                   outOfOrder, campaignData, saveFailedAt, returnValue, sendAttempts,
                   dashVars, metricVars, raceVars>>

\* await saveCampaign(campaignData, projectId); return campaignData
SaveAndReturn ==
    /\ sendPc = "saving"
    /\ \E failAt \in {"none"} \cup SeqRange(SaveSteps) :
          /\ failAt = "createCollection" => ~campaigns[sendProject].exists
          /\ campaigns' = [campaigns EXCEPT
                              ![sendProject] = saveCampaign(@, campaignData, failAt)]
          /\ saveFailedAt' = failAt
          /\ sendAttempts' = [sendAttempts EXCEPT !.inserts = @ + insertOneCalls(failAt)]
          /\ IF saveCampaignThrows(failAt)
             THEN sendPc' = "raised" /\ returnValue' = NoCampaign
             ELSE sendPc' = "returned" /\ returnValue' = campaignData
    /\ UNCHANGED <<sendProject, phone_numbers, responses, sendPromises, outOfOrder,
                   campaignData, dashVars, metricVars, raceVars>>

SendNext ==
    \/ SendTemplateMessages
    \/ ProviderSettles
    \/ BuildCampaign
    \/ SendRaises
    \/ SaveAndReturn

(***************************************************************************)
(* analyticsService: the metrics engine.  A stored result may lack the     *)
(* fields a dispatch does not write (answers, readDateTime), and a filter  *)
(* that is absent from the request is the empty string.                    *)
(***************************************************************************)
\* campaignsDb.collection(projectIdString)
\* One collection that every project shares.
campaignsCollectionShared(db, projectIdString) == db["p1"]

campaignsCollection(db, projectIdString) == db[projectIdString]

\* String.prototype.toLowerCase().trim() on the texts of the store.
LowerTrim(s) ==
    CASE s = " Yes " -> "yes"
      [] s = "YES" -> "yes"
      [] s = " YES " -> "yes"
      [] s = "Answered " -> "answered"
      [] OTHER -> Trim(s)

Field(r, f, default) == IF f \in DOMAIN r THEN r[f] ELSE default

\* An instant is a number of ticks, from 1 on; 0 is null.  end.setHours(23,
\* 59, 59, 999) moves an instant to the last tick of its day.
EndOfDayUnwidened(t) == t
EndOfDay(t) == ((t - 1) \div TicksPerDay) * TicksPerDay + TicksPerDay

QueryField(f) == IF f = "campaignId" THEN "_id" ELSE f
\* query.dateTime: absent, or an object with $gte and $lte where the start
\* and the end of dateRange are truthy.
DateQuery(filters) ==
    IF "dateRange" \in DOMAIN filters /\ Len(filters.dateRange) = 2
    THEN LET startDate == filters.dateRange[1]
             endDate == filters.dateRange[2]
         IN  [present |-> TRUE, gte |-> startDate,
              lte |-> IF endDate # 0 THEN EndOfDay(endDate) ELSE 0]
    ELSE [present |-> FALSE, gte |-> 0, lte |-> 0]
buildQuery(filters) ==
    LET present == {g \in DOMAIN filters \ {"dateRange"} : filters[g] # ""}
    IN  [equals |-> [q \in {QueryField(g) : g \in present} |->
                        filters[CHOOSE g \in present : QueryField(g) = q]],
         dateTime |-> DateQuery(filters)]

\* campaignsCollection.find(query).toArray(): every field of the query equals
\* the campaign's; a dateTime query with neither bound is the empty document,
\* which no date equals.
MatchesDate(campaign, dateTime) ==
    \/ ~dateTime.present
    \/ /\ "dateTime" \in DOMAIN campaign
       /\ dateTime.gte # 0 \/ dateTime.lte # 0
       /\ dateTime.gte # 0 => campaign.dateTime >= dateTime.gte
       /\ dateTime.lte # 0 => campaign.dateTime <= dateTime.lte
Matches(campaign, query) ==
    /\ \A f \in DOMAIN query.equals :
          f \in DOMAIN campaign /\ campaign[f] = query.equals[f]
    /\ MatchesDate(campaign, query.dateTime)
Find(collection, query) == SelectSeq(collection.docs, LAMBDA c : Matches(c, query))

\* A sum that counts every campaign found as one message.
RECURSIVE SumTotalsOnePerCampaign(_)
SumTotalsOnePerCampaign(found) ==
    IF found = <<>> THEN 0 ELSE 1 + SumTotalsOnePerCampaign(Tail(found))

RECURSIVE SumTotals(_)
SumTotals(found) ==
    IF found = <<>> THEN 0
    ELSE Field(Head(found), "total", 0) + SumTotals(Tail(found))

getMessagesSent(collection, filters) == SumTotals(Find(collection, buildQuery(filters)))

getCampaignsTotal(collection, filters) == Len(Find(collection, buildQuery(filters)))

\* The results of the campaigns found, as (campaign index, result index) pairs.
ResultsOf(found) ==
    UNION {{<<c, r>> : r \in 1..Len(found[c].results)} :
              c \in {d \in 1..Len(found) : "results" \in DOMAIN found[d]}}
HasPhone(result) == Field(result, "phoneNumber", "") # ""
HasAnswers(result) == Len(Field(result, "answers", <<>>)) > 0
IsAnsweredByStatus(result) == LowerTrim(Field(result, "status", "")) = "answered"
IsAnswered(result) ==
    LowerTrim(Field(result, "status", "")) = "answered" \/ HasAnswers(result)
HasMatchingAnswerAnyText(result, textFilter) == HasAnswers(result)
HasMatchingAnswer(result, textFilter) ==
    \E a \in 1..Len(Field(result, "answers", <<>>)) :
        LowerTrim(Field(result.answers[a], "messageText", "")) = LowerTrim(textFilter)

getReplies(collection, filters, textFilter) ==
    LET found == Find(collection, buildQuery(filters))
        uniqueRepliers ==
            {Trim(found[p[1]].results[p[2]].phoneNumber) :
                p \in {q \in ResultsOf(found) :
                        LET result == found[q[1]].results[q[2]]
                        IN  /\ HasPhone(result)
                            /\ IsAnswered(result)
                            /\ textFilter # "" =>
                                  /\ HasAnswers(result)
                                  /\ HasMatchingAnswer(result, textFilter)}}
    IN  Cardinality(uniqueRepliers)

\* Views counted per result, not per phone number.
getViewsPerResult(collection, filters) ==
    LET found == Find(collection, buildQuery(filters))
    IN  Cardinality({q \in ResultsOf(found) :
                        LET result == found[q[1]].results[q[2]]
                        IN  HasPhone(result) /\ Field(result, "readDateTime", "") # ""})

getViews(collection, filters) ==
    LET found == Find(collection, buildQuery(filters))
        uniqueViewers ==
            {Trim(found[p[1]].results[p[2]].phoneNumber) :
                p \in {q \in ResultsOf(found) :
                        LET result == found[q[1]].results[q[2]]
                        IN  HasPhone(result) /\ Field(result, "readDateTime", "") # ""}}
    IN  Cardinality(uniqueViewers)

\* Errors counted per phone number, not per result.
getErrorsDistinctPhones(collection, filters) ==
    LET found == Find(collection, buildQuery(filters))
    IN  Cardinality({Field(found[q[1]].results[q[2]], "phoneNumber", "") :
                        q \in {p \in ResultsOf(found) :
                                 LET result == found[p[1]].results[p[2]]
                                 IN  \/ Field(result, "success", TRUE) = FALSE
                                     \/ Field(result, "status", "") = "failed"}})

getErrors(collection, filters) ==
    LET found == Find(collection, buildQuery(filters))
    IN  Cardinality({q \in ResultsOf(found) :
                        LET result == found[q[1]].results[q[2]]
                        IN  \/ Field(result, "success", TRUE) = FALSE
                            \/ Field(result, "status", "") = "failed"})

\* The cases of the switch of processMetric.
MetricCases == {"messagesSent", "campaignsTotal", "replies", "views", "errors"}
\* metricFilter?.text || null, null being the empty string
TextFilter(metric) == Field(metric, "text", "")
MetricKey(metric) ==
    IF metric.type = "replies" /\ TextFilter(metric) # ""
    THEN "replies:" \o TextFilter(metric)
    ELSE metric.type
MetricValue(collection, metric, filters) ==
    CASE metric.type = "messagesSent" -> getMessagesSent(collection, filters)
      [] metric.type = "campaignsTotal" -> getCampaignsTotal(collection, filters)
      [] metric.type = "replies" -> getReplies(collection, filters, TextFilter(metric))
      [] metric.type = "views" -> getViews(collection, filters)
      [] metric.type = "errors" -> getErrors(collection, filters)

\* The steps of a metric's store read that may throw.
ReadSteps == <<"getDbConnection", "find">>
Null == [isNull |-> TRUE, key |-> "", value |-> 0]
KeyValue(key, value) == [isNull |-> FALSE, key |-> key, value |-> value]

\* A metric whose read throws yields its key with the initial result, 0.
processMetricUncaught(collection, metric, filters, failAt) ==
    IF metric.type \notin MetricCases THEN Null
    ELSE IF failAt # "none" THEN KeyValue(MetricKey(metric), 0)
    ELSE KeyValue(MetricKey(metric), MetricValue(collection, metric, filters))

\* processMetric resolves with null for an unknown type and for a read that
\* throws, and with { key, value } otherwise; it never rejects.
processMetric(collection, metric, filters, failAt) ==
    IF metric.type \notin MetricCases THEN Null
    ELSE IF failAt # "none" THEN Null
    ELSE KeyValue(MetricKey(metric), MetricValue(collection, metric, filters))

\* Statistics in which the first result of a key is kept.
RECURSIVE BuildStatsFirstWins(_, _)
BuildStatsFirstWins(results, built) ==
    IF results = <<>> THEN built
    ELSE LET result == Head(results)
         IN  BuildStatsFirstWins(Tail(results),
                                 IF result.isNull \/ result.key \in DOMAIN built THEN built
                                 ELSE [k \in DOMAIN built \cup {result.key} |->
                                          IF k = result.key THEN result.value ELSE built[k]])

\* results.forEach(result => { if (result !== null) stats[result.key] = result.value })
RECURSIVE BuildStats(_, _)
BuildStats(results, built) ==
    IF results = <<>> THEN built
    ELSE LET result == Head(results)
         IN  BuildStats(Tail(results),
                        IF result.isNull THEN built
                        ELSE [k \in DOMAIN built \cup {result.key} |->
                                 IF k = result.key THEN result.value ELSE built[k]])
EmptyStats == [k \in {} |-> 0]

\* Requests.
MetricSpecs ==
    {[type |-> t] : t \in {"messagesSent", "campaignsTotal", "replies", "errors", "opens"}}
        \cup {[type |-> "replies", text |-> "yes"], [type |-> "views", text |-> "yes"]}
MetricLists == UNION {[1..n -> MetricSpecs] : n \in 0..MaxMetrics}
NoFilters == [campaignName |-> ""]
FilterSets == {NoFilters, [campaignName |-> "promo"]}
MetricsProjectInputs == ProjectIds \cup {""}

\* Campaigns the store may hold: two with the fields the reply and read
\* callbacks add, and one as a dispatch leaves it.
StoredResult(phoneNumber, status, success, answers, readDateTime) ==
    [phoneNumber |-> phoneNumber, status |-> status, success |-> success,
     answers |-> answers, readDateTime |-> readDateTime]
PromoCampaign ==
    [_id |-> "c1", campaignName |-> "promo", total |-> 2, success |-> 1, failed |-> 1,
     results |-> <<StoredResult("+1000", "Answered ", TRUE,
                                <<[messageText |-> " Yes "]>>, "t1"),
                   StoredResult("+1001", "failed", FALSE, <<>>, "")>>]
PlainCampaign ==
    [_id |-> "c2", campaignName |-> "N/A", total |-> 1, success |-> 1, failed |-> 0,
     results |-> <<StoredResult(" +1000", "sent", TRUE, <<>>, "t2")>>]
DispatchedCampaign ==
    CampaignData("c3", <<"+1001">>,
                 PromiseAll(<<SendPromise("+1001", 1, NetworkError)>>))
SampleStores ==
    {<<>>, <<PromoCampaign>>, <<PromoCampaign, PlainCampaign>>,
     <<PlainCampaign, DispatchedCampaign>>}

NoAnswer == [fn |-> "none", projectId |-> "", filters |-> NoFilters, textFilter |-> "",
             raised |-> FALSE, value |-> 0, docs |-> <<>>]

MetricsInit ==
    /\ metricsPc = "idle"
    /\ metricsProject = ""
    /\ requestedMetrics = <<>>
    /\ metricsFilters = NoFilters
    /\ metricPromises = <<>>
    /\ readFailedAt = <<>>
    /\ stats = EmptyStats
    /\ answer = NoAnswer

\* processMetrics up to its await: it throws without a projectId, returns {}
\* for an empty list, and else starts processMetric for every metric.  One
\* call is made.
ProcessMetrics ==
    /\ metricsPc = "idle"
    /\ \E projectId \in MetricsProjectInputs, requested \in MetricLists,
          filters \in FilterSets :
          /\ metricsProject' = projectId
          /\ requestedMetrics' = requested
          /\ metricsFilters' = filters
          /\ IF projectId = ""
             THEN /\ metricsPc' = "raised"
                  /\ metricPromises' = <<>>
                  /\ readFailedAt' = <<>>
             ELSE IF requested = <<>>
             THEN /\ metricsPc' = "returned"
                  /\ metricPromises' = <<>>
                  /\ readFailedAt' = <<>>
             ELSE /\ metricsPc' = "awaitAll"
                  /\ metricPromises' = [i \in 1..Len(requested) |-> Pending]
                  /\ readFailedAt' = [i \in 1..Len(requested) |-> "none"]
    /\ stats' = EmptyStats
    /\ UNCHANGED <<answer, dashVars, sendVars, raceVars>>

\* The processMetric of one metric runs: it reads the store, or fails to.
MetricSettles ==
    /\ \E i \in 1..Len(metricPromises), failAt \in {"none"} \cup SeqRange(ReadSteps) :
          /\ metricPromises[i].state = "pending"
          /\ failAt # "none" => requestedMetrics[i].type \in MetricCases
          /\ metricPromises' =
                [metricPromises EXCEPT
                    ![i] = Fulfilled(processMetric(campaignsCollection(campaigns, metricsProject),
                                                   requestedMetrics[i],
                                                   metricsFilters, failAt))]
          /\ readFailedAt' = [readFailedAt EXCEPT ![i] = failAt]
    /\ UNCHANGED <<metricsPc, metricsProject, requestedMetrics, metricsFilters, stats,
                   answer, dashVars, sendVars, raceVars>>

\* Promise.all resolves: the statistics are built and returned.
MetricsReturn ==
    /\ metricsPc = "awaitAll"
    /\ \A i \in 1..Len(metricPromises) : metricPromises[i].state = "fulfilled"
    /\ stats' = BuildStats(PromiseAll(metricPromises), EmptyStats)
    /\ metricsPc' = "returned"
    /\ UNCHANGED <<metricsProject, requestedMetrics, metricsFilters, metricPromises,
                   readFailedAt, answer, dashVars, sendVars, raceVars>>

MetricsNext ==
    \/ ProcessMetrics
    \/ MetricSettles
    \/ MetricsReturn

(***************************************************************************)
(* The read functions called directly: getMessagesSent, getCampaignsTotal, *)
(* getReplies, getViews and getErrors of analyticsService, getCampaigns of *)
(* messageService.  A read that throws makes the call throw.  One call is  *)
(* made on a store.                                                        *)
(***************************************************************************)
\* getCampaigns: query._id and query.campaignName where given
getCampaigns(collection, campaignId, campaignName) ==
    Find(collection, buildQuery([campaignId |-> campaignId, campaignName |-> campaignName]))

ReadCall(fn, projectId, filters, textFilter, raised, value, docs) ==
    [fn |-> fn, projectId |-> projectId, filters |-> filters, textFilter |-> textFilter,
     raised |-> raised, value |-> IF raised THEN 0 ELSE value,
     docs |-> IF raised THEN <<>> ELSE docs]

\* Requests.
TextFilters == {"", "yes", " YES "}
DateRanges == {<<startDate, endDate>> : startDate \in {0, 2, 3}, endDate \in {0, 1, 3}}
AnalyticsFilters ==
    {[campaignName |-> n, templateName |-> t] : n \in {"", "promo"}, t \in {"", "offer"}}
        \cup {[campaignId |-> "c3"], [campaignId |-> "c9"], [fromPhoneNumber |-> "+5511"],
              [campaignId |-> "c1", fromPhoneNumber |-> "+5511"]}
        \cup {[dateRange |-> d] : d \in DateRanges}
        \cup {[dateRange |-> <<1, 1>>, campaignName |-> "promo"],
              [dateRange |-> <<3>>, campaignName |-> "N/A"]}
CampaignIdInputs == {"", "c1", "c9"}
CampaignNameInputs == {"", "promo"}

GetMessagesSent ==
    /\ answer = NoAnswer
    /\ \E projectId \in ProjectIds, filters \in AnalyticsFilters, raised \in BOOLEAN :
          answer' = ReadCall("getMessagesSent", projectId, filters, "", raised,
                             getMessagesSent(campaignsCollection(campaigns, projectId), filters), <<>>)
    /\ UNCHANGED <<dashVars, sendVars, processVars, raceVars>>
GetCampaignsTotal ==
    /\ answer = NoAnswer
    /\ \E projectId \in ProjectIds, filters \in AnalyticsFilters, raised \in BOOLEAN :
          answer' = ReadCall("getCampaignsTotal", projectId, filters, "", raised,
                             getCampaignsTotal(campaignsCollection(campaigns, projectId), filters),
                             <<>>)
    /\ UNCHANGED <<dashVars, sendVars, processVars, raceVars>>
GetReplies ==
    /\ answer = NoAnswer
    /\ \E projectId \in ProjectIds, filters \in AnalyticsFilters,
          textFilter \in TextFilters, raised \in BOOLEAN :
          answer' = ReadCall("getReplies", projectId, filters, textFilter, raised,
                             getReplies(campaignsCollection(campaigns, projectId), filters,
                                        textFilter), <<>>)
    /\ UNCHANGED <<dashVars, sendVars, processVars, raceVars>>
GetViews ==
    /\ answer = NoAnswer
    /\ \E projectId \in ProjectIds, filters \in AnalyticsFilters, raised \in BOOLEAN :
          answer' = ReadCall("getViews", projectId, filters, "", raised,
                             getViews(campaignsCollection(campaigns, projectId), filters), <<>>)
    /\ UNCHANGED <<dashVars, sendVars, processVars, raceVars>>
GetErrors ==
    /\ answer = NoAnswer
    /\ \E projectId \in ProjectIds, filters \in AnalyticsFilters, raised \in BOOLEAN :
          answer' = ReadCall("getErrors", projectId, filters, "", raised,
                             getErrors(campaignsCollection(campaigns, projectId), filters), <<>>)
    /\ UNCHANGED <<dashVars, sendVars, processVars, raceVars>>
GetCampaigns ==
    /\ answer = NoAnswer
    /\ \E projectId \in ProjectIds, campaignId \in CampaignIdInputs,
          campaignName \in CampaignNameInputs, raised \in BOOLEAN :
          answer' = ReadCall("getCampaigns", projectId,
                             [campaignId |-> campaignId, campaignName |-> campaignName],
                             "", raised, 0,
                             getCampaigns(campaignsCollection(campaigns, projectId), campaignId,
                                          campaignName))
    /\ UNCHANGED <<dashVars, sendVars, processVars, raceVars>>

AnalyticsNext ==
    \/ GetMessagesSent
    \/ GetCampaignsTotal
    \/ GetReplies
    \/ GetViews
    \/ GetErrors
    \/ GetCampaigns

\* The results a stored campaign may hold.
AnsweredNoAnswers == StoredResult("+1000", "answered", TRUE, <<>>, "")
SpacedPhoneYes == StoredResult(" +1000", "sent", TRUE, <<[messageText |-> " Yes "]>>, "t1")
TwoAnswers ==
    StoredResult("+100a", "sent", TRUE,
                 <<[messageText |-> "no"], [messageText |-> "YES"]>>, "t2")
UpperPhoneRead == StoredResult("+100A", "Answered ", TRUE, <<>>, "t3")
NoPhoneYes == StoredResult("", "answered", TRUE, <<[messageText |-> "yes"]>>, "t1")
LongerAnswer == StoredResult("+1000", "sent", TRUE, <<[messageText |-> "yes!"]>>, "")
FailedSend == SendPromise("+1000", 1, NetworkError).value
ResultKinds ==
    {AnsweredNoAnswers, SpacedPhoneYes, TwoAnswers, UpperPhoneRead, NoPhoneYes,
     LongerAnswer, FailedSend}
ResultLists == UNION {[1..n -> ResultKinds] : n \in 0..MaxResults}
SecondResultLists == {<<>>, <<SpacedPhoneYes>>, <<FailedSend>>, <<TwoAnswers>>}

StoredCampaign(id, campaignName, templateName, fromPhoneNumber, dateTime, results) ==
    [_id |-> id, campaignName |-> campaignName, templateName |-> templateName,
     fromPhoneNumber |-> fromPhoneNumber, dateTime |-> dateTime,
     total |-> Len(results), success |-> CountSuccess(results),
     failed |-> CountFailure(results), results |-> results]
FirstCampaign(results) == StoredCampaign("c1", "promo", "welcome", "+5511", 1, results)
SecondCampaign(results) == StoredCampaign("c2", "N/A", "offer", "+5522", 3, results)
ThirdCampaign == StoredCampaign("c3", "promo", "offer", "+5511", 2, <<AnsweredNoAnswers>>)
EnumeratedStores ==
    {<<FirstCampaign(r1), SecondCampaign(r2)>> :
        r1 \in ResultLists, r2 \in SecondResultLists}
        \cup {<<>>, <<FirstCampaign(<<SpacedPhoneYes>>), ThirdCampaign>>,
              <<FirstCampaign(<<AnsweredNoAnswers, FailedSend>>),
                SecondCampaign(<<TwoAnswers>>), ThirdCampaign>>}

(***************************************************************************)
(* saveCampaign calls that run side by side.  Each action is the part of   *)
(* one call between two awaits.  A step fails here only for what the other *)
(* call did; a step that fails by itself is part of saveCampaign above.    *)
(***************************************************************************)
SaveCallIds == {1, 2}
NoSave == [pc |-> "idle", projectId |-> "", campaignData |-> NoCampaign,
           exists |-> FALSE, created |-> FALSE, threw |-> "none"]
\* The campaign that a dispatch to one recipient hands to saveCampaign.
SavedRecord(campaignId) ==
    CampaignData(campaignId, <<"+1000">>, PromiseAll(<<SendPromise("+1000", 1, Sent)>>))
CampaignIdsInUse ==
    StoredCampaignIds \cup {saves[c].campaignData._id : c \in SaveCallIds}
\* What createCollection does for a collection that exists by now: the
\* server answers NamespaceExists, or accepts the same options again.
CreateExistingOutcomes == {"NamespaceExists", "ok"}

sendCallVars == <<sendPc, sendProject, phone_numbers, responses, sendPromises,
                  outOfOrder, campaignData, saveFailedAt, returnValue, sendAttempts>>

\* saveCampaign(campaignData, projectId) up to listCollections: the connection
\* is taken.
SaveCampaignCalled ==
    /\ \E c \in SaveCallIds, projectId \in ProjectIds :
          /\ saves[c].pc \in {"idle", "done"}
          /\ FirstUnused(CampaignIdPool, CampaignIdsInUse) # ""
          /\ saves' = [saves EXCEPT ![c] =
                          [NoSave EXCEPT
                              !.pc = "listCollections",
                              !.projectId = projectId,
                              !.campaignData =
                                  SavedRecord(FirstUnused(CampaignIdPool, CampaignIdsInUse))]]
    /\ UNCHANGED <<campaigns, sendCallVars, dashVars, metricVars, mutations>>

\* const exists = await campaignsDb.listCollections(...).hasNext()
SaveListCollections ==
    /\ \E c \in SaveCallIds :
          /\ saves[c].pc = "listCollections"
          /\ saves' = [saves EXCEPT
                          ![c].exists = campaigns[saves[c].projectId].exists,
                          ![c].pc = IF campaigns[saves[c].projectId].exists
                                    THEN "insertOne" ELSE "createCollection"]
    /\ UNCHANGED <<campaigns, sendCallVars, dashVars, metricVars, mutations>>

\* if (!exists) await campaignsDb.createCollection(...): a throw is caught by
\* the catch of saveCampaign, which logs and returns.
SaveCreateCollection ==
    /\ \E c \in SaveCallIds :
          /\ saves[c].pc = "createCollection"
          /\ IF campaigns[saves[c].projectId].exists
             THEN /\ \E outcome \in CreateExistingOutcomes :
                        saves' = [saves EXCEPT
                                     ![c].pc = IF outcome = "ok" THEN "insertOne" ELSE "done",
                                     ![c].threw = IF outcome = "ok" THEN "none" ELSE outcome]
                  /\ UNCHANGED campaigns
             ELSE /\ campaigns' = [campaigns EXCEPT ![saves[c].projectId].exists = TRUE]
                  /\ saves' = [saves EXCEPT ![c].pc = "insertOne", ![c].created = TRUE]
    /\ UNCHANGED <<sendCallVars, dashVars, metricVars, mutations>>

\* await campaignsCollection.insertOne(campaignData)
SaveInsertOne ==
    /\ \E c \in SaveCallIds :
          /\ saves[c].pc = "insertOne"
          /\ campaigns' = [campaigns EXCEPT
                              ![saves[c].projectId] =
                                  [exists |-> TRUE,
                                   docs |-> Append(@.docs, saves[c].campaignData)]]
          /\ saves' = [saves EXCEPT ![c].pc = "done"]
    /\ UNCHANGED <<sendCallVars, dashVars, metricVars, mutations>>

SaveRaceNext ==
    \/ SaveCampaignCalled
    \/ SaveListCollections
    \/ SaveCreateCollection
    \/ SaveInsertOne

(***************************************************************************)
(* Dashboard mutations that run side by side.  A call reads the project    *)
(* and the dashboard and computes the list to store, writes it with        *)
(* updateOne, and fetches the dashboard to return it.  The memberships do  *)
(* not change meanwhile, so the two reads are one action.                  *)
(***************************************************************************)
MutationIds == {1, 2}
NoMutation ==
    [pc |-> "idle", op |-> "none", dashboardId |-> "", projectId |-> "",
     existingReports |-> <<>>, toStore |-> <<>>, error |-> NoError, ret |-> NoReturn,
     calls |-> 0]
\* The c-th caller begins one more call.
Begins(c) ==
    /\ mutations[c].pc \in {"idle", "returned", "raised"}
    /\ mutations[c].calls < MaxCalls
\* A call of caller c that threw after its reads.
Thrown(c, op, dashboardId, projectId, error) ==
    [NoMutation EXCEPT !.pc = "raised", !.op = op, !.dashboardId = dashboardId,
                       !.projectId = projectId, !.error = error,
                       !.calls = mutations[c].calls + 1]
\* A call of caller c that has read existingReports and is about to store
\* toStore.
AboutToStore(c, op, dashboardId, projectId, existingReports, toStore) ==
    [NoMutation EXCEPT !.pc = "updateOne", !.op = op, !.dashboardId = dashboardId,
                       !.projectId = projectId, !.existingReports = existingReports,
                       !.toStore = toStore, !.calls = mutations[c].calls + 1]
\* The ids new ObjectId() cannot yield: those stored and those of the lists
\* about to be stored.
ReportIdsInUse ==
    StoredReportIds
        \cup UNION {{mutations[c].toStore[i]._id : i \in 1..Len(mutations[c].toStore)} :
                       c \in MutationIds}

\* The requests of the calls that run side by side.
RaceBatches ==
    {<<>>,
     <<BatchReport("", Num(2), "Sales"), BatchReport("", Num(1), "Sales")>>,
     <<BatchReport("", Num(1), "Sales"), BatchReport("", Num(3), "Sales")>>}
RaceAddReports ==
    {AddReport("", Undefined, " Sales ", "pie", someMetrics),
     AddReport("u1", Num(5), "Sales", "pie", someMetrics),
     AddReport("", Undefined, " ", "pie", someMetrics)}
RaceReportIds == {"g1", "g2", "g9"}

\* A write that is dropped when the stored list is no longer the one read.
SetReportsIfUnchanged(stored, existingReports, toStore) ==
    IF stored = existingReports THEN toStore ELSE stored

\* updateOne({ _id }, { $set: { reports } }): the stored list becomes the one
\* the call computed, whatever is stored by now.
SetReports(stored, existingReports, toStore) == toStore

\* updateDashboard up to its updateOne.
UpdateDashboardReads ==
    /\ \E c \in MutationIds, d \in DashboardInputs, p \in ProjectIds, b \in RaceBatches :
          LET accessError == AccessError(d, p)
              normalized == normalizeReports(b, ReportIdsInUse)
              error == IF accessError # NoError THEN accessError ELSE normalized.error
          IN  /\ Begins(c)
              /\ mutations' = [mutations EXCEPT ![c] =
                    IF error # NoError THEN Thrown(c, "updateDashboard", d, p, error)
                    ELSE AboutToStore(c, "updateDashboard", d, p, dashboards[d].reports,
                                  normalized.reports)]
    /\ UNCHANGED <<dashVars, sendVars, metricVars, saves>>

\* addReportToDashboard up to its updateOne.
AddReportReads ==
    /\ \E c \in MutationIds, d \in DashboardInputs, p \in ProjectIds,
          r \in RaceAddReports :
          LET accessError == AccessError(d, p)
              error == IF accessError # NoError THEN accessError ELSE AddReportError(r)
              existingReports == dashboards[d].reports
          IN  /\ Begins(c)
              /\ error = NoError => Len(existingReports) < MaxReports
              /\ mutations' = [mutations EXCEPT ![c] =
                    IF error # NoError THEN Thrown(c, "addReportToDashboard", d, p, error)
                    ELSE AboutToStore(c, "addReportToDashboard", d, p, existingReports,
                                  AllReports(existingReports,
                                             NewReport(r, existingReports, ReportIdsInUse)))]
    /\ UNCHANGED <<dashVars, sendVars, metricVars, saves>>

\* removeReportFromDashboard up to its updateOne.
RemoveReportReads ==
    /\ \E c \in MutationIds, d \in DashboardInputs, p \in ProjectIds,
          reportId \in RaceReportIds :
          LET accessError == AccessError(d, p)
              existingReports == dashboards[d].reports
              reportIndex == findIndex(existingReports, reportId)
              error == IF accessError # NoError THEN accessError
                       ELSE IF reportIndex = 0 THEN <<"Report not found">>
                       ELSE NoError
          IN  /\ Begins(c)
              /\ mutations' = [mutations EXCEPT ![c] =
                    IF error # NoError
                    THEN Thrown(c, "removeReportFromDashboard", d, p, error)
                    ELSE AboutToStore(c, "removeReportFromDashboard", d, p, existingReports,
                                  UpdatedReports(existingReports, reportIndex))]
    /\ UNCHANGED <<dashVars, sendVars, metricVars, saves>>

\* await dashboardsCollection.updateOne(...)
MutationWrites ==
    /\ \E c \in MutationIds :
          /\ mutations[c].pc = "updateOne"
          /\ dashboards' = [dashboards EXCEPT
                ![mutations[c].dashboardId].reports =
                    SetReports(@, mutations[c].existingReports, mutations[c].toStore)]
          /\ mutations' = [mutations EXCEPT ![c].pc = "findOne"]
    /\ UNCHANGED <<projects, reqReports, last, sendVars, metricVars, saves>>

\* const updatedDashboard = await dashboardsCollection.findOne(...); return it
MutationReturns ==
    /\ \E c \in MutationIds :
          /\ mutations[c].pc = "findOne"
          /\ mutations' = [mutations EXCEPT
                ![c].pc = "returned",
                ![c].ret = Returned(mutations[c].dashboardId,
                                    dashboards[mutations[c].dashboardId].reports)]
    /\ UNCHANGED <<dashVars, sendVars, metricVars, saves>>

DashRaceNext ==
    \/ UpdateDashboardReads
    \/ AddReportReads
    \/ RemoveReportReads
    \/ MutationWrites
    \/ MutationReturns

(***************************************************************************)
(* A dispatch, a processMetrics call and a getCampaigns call that run side *)
(* by side on the store of project p1.  The dispatch has one recipient at   *)
(* most; the metrics and the campaigns are asked for without filters.      *)
(***************************************************************************)
StoreMetricSpecs ==
    {[type |-> "messagesSent"], [type |-> "campaignsTotal"],
     [type |-> "replies", text |-> "yes"], [type |-> "views", text |-> "yes"]}

SendTemplateMessagesToOne ==
    /\ SendTemplateMessages
    /\ sendProject' = "p1"
    /\ Len(phone_numbers') <= MaxSideRecipients

ProcessStoreMetrics ==
    /\ ProcessMetrics
    /\ metricsProject' = "p1"
    /\ metricsFilters' = NoFilters
    /\ \A i \in 1..Len(requestedMetrics') : requestedMetrics'[i] \in StoreMetricSpecs

GetStoreCampaigns ==
    /\ GetCampaigns
    /\ answer'.projectId = "p1"
    /\ answer'.filters = [campaignId |-> "", campaignName |-> ""]

ConcurrentNext ==
    \/ SendTemplateMessagesToOne
    \/ ProviderSettles
    \/ BuildCampaign
    \/ SendRaises
    \/ SaveAndReturn
    \/ ProcessStoreMetrics
    \/ MetricSettles
    \/ MetricsReturn
    \/ GetStoreCampaigns

RaceInit ==
    /\ saves = [c \in SaveCallIds |-> NoSave]
    /\ mutations = [c \in MutationIds |-> NoMutation]

(***************************************************************************)
(* The dashboard manager as a state machine.  The calls do not overlap:    *)
(* each action is one whole call.                                          *)
(***************************************************************************)
NoOutcome == Outcome("none", "", "", <<>>, NoReportData, "", NoError, NoReturn)

DashInit ==
    /\ dashboards = [d \in DashboardIds |-> [stored |-> FALSE, reports |-> <<>>]]
    /\ projects = [p \in ProjectIds |-> {}]
    /\ reqReports = <<>>
    /\ last = NoOutcome
    /\ SendInit
    /\ MetricsInit
    /\ RaceInit

CreateDashboard ==
    /\ \E p \in ProjectInputs, b \in SampleBatches, f \in BOOLEAN : createDashboard(p, b, f)
    /\ UNCHANGED <<sendVars, metricVars, raceVars>>
GetDashboardById ==
    /\ \E d \in DashboardInputs, p \in ProjectInputs : getDashboardById(d, p)
    /\ UNCHANGED <<sendVars, metricVars, raceVars>>
UpdateDashboard ==
    /\ \E d \in DashboardInputs, p \in ProjectInputs, provided \in BOOLEAN :
          \E b \in IF provided THEN SampleBatches ELSE {<<>>} :
              updateDashboard(d, p, provided, b)
    /\ UNCHANGED <<sendVars, metricVars, raceVars>>
AddReportToDashboard ==
    /\ \E d \in DashboardInputs, p \in ProjectInputs, r \in AddReports :
          addReportToDashboard(d, p, r)
    /\ UNCHANGED <<sendVars, metricVars, raceVars>>
RemoveReportFromDashboard ==
    /\ \E d \in DashboardInputs, p \in ProjectInputs, r \in ReportIdInputs :
          removeReportFromDashboard(d, p, r)
    /\ UNCHANGED <<sendVars, metricVars, raceVars>>

DashNext ==
    \/ CreateDashboard
    \/ GetDashboardById
    \/ UpdateDashboard
    \/ AddReportToDashboard
    \/ RemoveReportFromDashboard

SpecDash == DashInit /\ [][DashNext]_vars

(***************************************************************************)
(* normalizeReports over every request body: the body is drawn in the      *)
(* initial state and create and update are called with it, on an empty     *)
(* store or on one that holds a dashboard of project p1 with two reports.  *)
(***************************************************************************)
SeedReports ==
    normalizeReports(<<BatchReport("", Undefined, "Sales"),
                       BatchReport("", Undefined, "Sales")>>, {}).reports

NormInit ==
    /\ reqReports \in Batches
    /\ \/ /\ dashboards = [d \in DashboardIds |-> [stored |-> FALSE, reports |-> <<>>]]
          /\ projects = [p \in ProjectIds |-> {}]
       \/ /\ dashboards = [d \in DashboardIds |->
                              IF d = "d1" THEN [stored |-> TRUE, reports |-> SeedReports]
                              ELSE [stored |-> FALSE, reports |-> <<>>]]
          /\ projects = [p \in ProjectIds |-> IF p = "p1" THEN {"d1"} ELSE {}]
    /\ last = NoOutcome
    /\ SendInit
    /\ MetricsInit
    /\ RaceInit

CreateDashboardReq ==
    /\ \E p \in ProjectInputs, f \in BOOLEAN : createDashboard(p, reqReports, f)
    /\ UNCHANGED <<sendVars, metricVars, raceVars>>
UpdateDashboardReq ==
    /\ \E d \in DashboardInputs, p \in ProjectInputs :
          updateDashboard(d, p, TRUE, reqReports)
    /\ UNCHANGED <<sendVars, metricVars, raceVars>>

NormNext ==
    \/ CreateDashboardReq
    \/ UpdateDashboardReq

SpecNormalize == NormInit /\ [][NormNext]_vars

SpecDispatch == DashInit /\ [][SendNext]_vars

\* The continuations of a call run once what they await has settled: the
\* event loop resumes the call after Promise.all and after saveCampaign.
SpecDispatchLive ==
    /\ DashInit
    /\ [][SendNext]_vars
    /\ WF_vars(BuildCampaign)
    /\ WF_vars(SendRaises)
    /\ WF_vars(SaveAndReturn)

(***************************************************************************)
(* processMetrics over a store that already holds campaigns.               *)
(***************************************************************************)
MetricsStoreInit ==
    /\ dashboards = [d \in DashboardIds |-> [stored |-> FALSE, reports |-> <<>>]]
    /\ projects = [p \in ProjectIds |-> {}]
    /\ reqReports = <<>>
    /\ last = NoOutcome
    /\ \E store \in SampleStores :
          campaigns = [p \in ProjectIds |->
                          IF p = "p1" THEN [exists |-> TRUE, docs |-> store]
                          ELSE [exists |-> TRUE, docs |-> <<PlainCampaign>>]]
    /\ sendPc = "idle"
    /\ sendProject = ""
    /\ phone_numbers = <<>>
    /\ responses = <<>>
    /\ sendPromises = <<>>
    /\ outOfOrder = FALSE
    /\ campaignData = NoCampaign
    /\ saveFailedAt = "not called"
    /\ returnValue = NoCampaign
    /\ sendAttempts = NoAttempts
    /\ MetricsInit
    /\ RaceInit

SpecMetrics == MetricsStoreInit /\ [][MetricsNext]_vars

(***************************************************************************)
(* The read functions over every enumerated store of project p1.           *)
(***************************************************************************)
AnalyticsInit ==
    /\ dashboards = [d \in DashboardIds |-> [stored |-> FALSE, reports |-> <<>>]]
    /\ projects = [p \in ProjectIds |-> {}]
    /\ reqReports = <<>>
    /\ last = NoOutcome
    /\ \E store \in EnumeratedStores :
          campaigns = [p \in ProjectIds |->
                          IF p = "p1" THEN [exists |-> TRUE, docs |-> store]
                          ELSE [exists |-> TRUE, docs |-> <<PlainCampaign>>]]
    /\ sendPc = "idle"
    /\ sendProject = ""
    /\ phone_numbers = <<>>
    /\ responses = <<>>
    /\ sendPromises = <<>>
    /\ outOfOrder = FALSE
    /\ campaignData = NoCampaign
    /\ saveFailedAt = "not called"
    /\ returnValue = NoCampaign
    /\ sendAttempts = NoAttempts
    /\ MetricsInit
    /\ RaceInit

SpecAnalytics == AnalyticsInit /\ [][AnalyticsNext]_vars

(***************************************************************************)
(* sendTemplateMessages on a store that holds campaigns of both projects.  *)
(***************************************************************************)
IsolationInit ==
    /\ dashboards = [d \in DashboardIds |-> [stored |-> FALSE, reports |-> <<>>]]
    /\ projects = [p \in ProjectIds |-> {}]
    /\ reqReports = <<>>
    /\ last = NoOutcome
    /\ \E store \in {<<>>, <<PromoCampaign>>} :
          campaigns = [p \in ProjectIds |->
                          IF p = "p1" THEN [exists |-> store # <<>>, docs |-> store]
                          ELSE [exists |-> TRUE, docs |-> <<PlainCampaign>>]]
    /\ sendPc = "idle"
    /\ sendProject = ""
    /\ phone_numbers = <<>>
    /\ responses = <<>>
    /\ sendPromises = <<>>
    /\ outOfOrder = FALSE
    /\ campaignData = NoCampaign
    /\ saveFailedAt = "not called"
    /\ returnValue = NoCampaign
    /\ sendAttempts = NoAttempts
    /\ MetricsInit
    /\ RaceInit

SpecIsolation == IsolationInit /\ [][SendNext]_vars

(***************************************************************************)
(* saveCampaign calls side by side on an empty store, and dashboard        *)
(* mutations side by side on a dashboard of project p1 with two reports.   *)
(***************************************************************************)
SpecSaveRace == DashInit /\ [][SaveRaceNext]_vars

\* The dispatcher, the metrics engine and getCampaigns side by side on a store
\* that holds campaigns of both projects.
SpecConcurrent == IsolationInit /\ [][ConcurrentNext]_vars

DashRaceInit ==
    /\ dashboards = [d \in DashboardIds |->
                        IF d = "d1" THEN [stored |-> TRUE, reports |-> SeedReports]
                        ELSE [stored |-> FALSE, reports |-> <<>>]]
    /\ projects = [p \in ProjectIds |-> IF p = "p1" THEN {"d1"} ELSE {}]
    /\ reqReports = <<>>
    /\ last = NoOutcome
    /\ SendInit
    /\ MetricsInit
    /\ RaceInit

SpecDashRace == DashRaceInit /\ [][DashRaceNext]_vars

(***************************************************************************)
(* Properties of the dashboard manager.                                    *)
(***************************************************************************)
Positions(reports) == {reports[i].position : i \in 1..Len(reports)}
OneTo(n) == {Num(i) : i \in 1..n}
AccessDenied == <<"Access denied: Project does not have access to this dashboard">>
Member(projectId, dashboardId) ==
    projectId \in DOMAIN projects /\ dashboardId \in projects[projectId]
MutatingOps == {"updateDashboard", "addReportToDashboard", "removeReportFromDashboard"}

\* C1: every stored dashboard with N reports has positions exactly {1..N},
\* after any sequence of whole create, update, add-report and remove-report
\* calls.
C1_PositionsContiguous ==
    \A d \in DashboardIds :
        dashboards[d].stored =>
            Positions(dashboards[d].reports) = OneTo(Len(dashboards[d].reports))

\* C1 witness: a report was removed from a dashboard that keeps two reports.
C1_Witness ==
    /\ last.op = "removeReportFromDashboard"
    /\ last.error = NoError
    /\ Len(dashboards[last.dashboardId].reports) = 2

\* A request body normalizeReports cannot accept: an explicit position that is
\* no integer of 1..N, or two equal explicit positions.
Unacceptable(batch) ==
    \/ \E i \in 1..Len(batch) :
          /\ batch[i].position # Undefined
          /\ batch[i].position \notin OneTo(Len(batch))
    \/ \E i, j \in 1..Len(batch) :
          i < j /\ batch[i].position # Undefined /\ batch[i].position = batch[j].position
ExplicitPermutation(batch) ==
    /\ \A i \in 1..Len(batch) : batch[i].position # Undefined
    /\ Positions(batch) = OneTo(Len(batch))
ValidShape(report) ==
    /\ Trim(report.name) # ""
    /\ report.type \in {"number", "pie", "bar"}
    /\ report.metrics # <<>>
    /\ \A i \in 1..Len(report.metrics) :
          report.metrics[i].type
              \in {"messagesSent", "campaignsTotal", "replies", "views", "errors"}

\* C5: a create or update whose request body reaches normalizeReports fails
\* when the final positions cannot be {1..N}, succeeds for a valid body whose
\* explicit positions are a permutation of 1..N, stores what it accepts with
\* the explicit positions as given and the positions exactly {1..N}, and on
\* failure changes neither the dashboards nor the memberships.
C5_NormalizeRejectsOrApplies ==
    [][(/\ last'.op \in {"createDashboard", "updateDashboard"}
        /\ (last'.op = "updateDashboard" =>
               /\ Member(last'.projectId, last'.dashboardId)
               /\ dashboards[last'.dashboardId].stored))
       => LET batch == last'.reports
              failed == last'.error # NoError
              stored == dashboards'[last'.dashboardId].reports
          IN  /\ Unacceptable(batch) => failed
              /\ ((\A i \in 1..Len(batch) : ValidShape(batch[i]))
                     /\ ExplicitPermutation(batch)) => ~failed
              /\ failed => /\ dashboards' = dashboards
                           /\ projects' = projects
                           /\ ~last'.ret.given
                           /\ last'.error[1] \in {"Report at index",
                                  "Positions must start from 1",
                                  "Positions must be sequential starting from 1. Found gap"}
              /\ ~failed => /\ dashboards'[last'.dashboardId].stored
                            /\ Len(stored) = Len(batch)
                            /\ Positions(stored) = OneTo(Len(batch))
                            /\ \A i \in 1..Len(batch) :
                                  batch[i].position # Undefined
                                      => stored[i].position = batch[i].position]_vars

\* C5 witness: an update with a gap in its positions was rejected on a
\* dashboard that holds reports.
C5_Witness ==
    /\ last.op = "updateDashboard"
    /\ last.error = <<"Positions must be sequential starting from 1. Found gap">>
    /\ Len(dashboards[last.dashboardId].reports) = 2

\* C6: add-report with a valid name, type and metrics, by a project that has
\* access, succeeds whatever the position of the request; the stored list is
\* the old one followed by the new report, with positions 1..N+1 in list order.
C6_AddIgnoresPosition ==
    [][(/\ last'.op = "addReportToDashboard"
        /\ Member(last'.projectId, last'.dashboardId)
        /\ dashboards[last'.dashboardId].stored
        /\ ValidShape(last'.reportData))
       => LET old == dashboards[last'.dashboardId].reports
              new == dashboards'[last'.dashboardId].reports
              n == Len(old)
          IN  /\ last'.error = NoError
              /\ Len(new) = n + 1
              /\ Positions(new) = OneTo(n + 1)
              /\ new[n + 1].position = Num(n + 1)
              /\ new[n + 1].name = Trim(last'.reportData.name)
              /\ (last'.reportData._id # "" => new[n + 1]._id = last'.reportData._id)
              /\ \A i \in 1..n : /\ new[i]._id = old[i]._id
                                 /\ new[i].name = old[i].name
                                 /\ new[i].position = Num(i)]_vars

\* C6 witness: a third report was added with the position of an existing one.
C6_Witness ==
    /\ last.op = "addReportToDashboard"
    /\ last.error = NoError
    /\ last.reportData.position = Num(1)
    /\ Len(dashboards[last.dashboardId].reports) = 3

IdsOf(reports) == {reports[i]._id : i \in 1..Len(reports)}
PositionOf(reports, id) ==
    reports[CHOOSE i \in 1..Len(reports) : reports[i]._id = id].position

\* C7: remove-report with an absent id fails with 'Report not found' and
\* changes nothing; with a present id it leaves N-1 reports with positions
\* {1..N-1}, and of two remaining reports the one with the smaller position
\* before has the smaller position after.
C7_RemoveKeepsPositionOrder ==
    [][(/\ last'.op = "removeReportFromDashboard"
        /\ Member(last'.projectId, last'.dashboardId)
        /\ dashboards[last'.dashboardId].stored)
       => LET old == dashboards[last'.dashboardId].reports
              new == dashboards'[last'.dashboardId].reports
          IN  IF last'.reportId \notin IdsOf(old)
              THEN last'.error = <<"Report not found">> /\ dashboards' = dashboards
              ELSE /\ last'.error = NoError
                   /\ Len(new) = Len(old) - 1
                   /\ Positions(new) = OneTo(Len(old) - 1)
                   /\ \A a, b \in IdsOf(new) \ {last'.reportId} :
                          PositionOf(old, a).twice < PositionOf(old, b).twice
                              => PositionOf(new, a).twice < PositionOf(new, b).twice]_vars

\* C8: get, update, add-report and remove-report answer with a dashboard or
\* change one only for a project whose membership set holds it; a project
\* without the membership gets the access-denied error, no content, and the
\* stored dashboards and memberships stay as they were.
C8_AccessControlled ==
    [][(last'.op \in MutatingOps \cup {"getDashboardById"})
       => \/ Member(last'.projectId, last'.dashboardId)
          \/ /\ ~last'.ret.given
             /\ dashboards' = dashboards
             /\ projects' = projects
             /\ last'.error = IF last'.projectId \in DOMAIN projects
                              THEN AccessDenied ELSE <<"Project not found">>
             /\ AccessDenied \notin {<<"Project not found">>, <<"Dashboard not found">>}]_vars

\* C8 witness: a project without the membership was denied adding a report to
\* a stored dashboard that holds reports.
C8_Witness ==
    /\ last.op = "addReportToDashboard"
    /\ last.error = AccessDenied
    /\ last.projectId \in DOMAIN projects
    /\ dashboards[last.dashboardId].stored
    /\ Len(dashboards[last.dashboardId].reports) >= 1

(***************************************************************************)
(* Properties of the campaign dispatcher.                                  *)
(***************************************************************************)
Tallied(campaign, n) ==
    /\ Len(campaign.results) = n
    /\ campaign.total = n
    /\ campaign.success + campaign.failed = n
    /\ campaign.success
          = Cardinality({i \in 1..Len(campaign.results) : campaign.results[i].success})
LastDoc(collection) == collection.docs[Len(collection.docs)]

\* C2: the campaign sendTemplateMessages returns for N recipients has N
\* results, total N, success + failed = N and success the number of results
\* with success true; so has the record handed to saveCampaign, and the
\* record that was inserted.
C2_CampaignTallies ==
    /\ sendPc = "saving" => Tallied(campaignData, Len(phone_numbers))
    /\ sendPc = "returned" =>
          /\ Tallied(returnValue, Len(phone_numbers))
          /\ returnValue = campaignData
          /\ saveFailedAt = "none" => LastDoc(campaigns[sendProject]) = returnValue

\* C2 witness: a call for three recipients returned with two sent and one failed,
\* and its record was stored.
C2_Witness ==
    /\ sendPc = "returned"
    /\ Len(phone_numbers) = 3
    /\ returnValue.success = 2
    /\ returnValue.failed = 1
    /\ saveFailedAt = "none"

Failed(response) == ~response.resolved

\* C3: whatever the shape of the provider's failures, the call does not
\* raise, and the entry of each recipient is a failure with an error attached
\* if its own send failed and a success if not.
C3_FailuresNeverRaise ==
    /\ sendPc # "raised"
    /\ sendPc \in {"saving", "returned"} =>
          \A i \in 1..Len(phone_numbers) :
              IF Failed(responses[i])
              THEN /\ ~campaignData.results[i].success
                   /\ campaignData.results[i].status = "failed"
                   /\ campaignData.results[i].error # JsUndefined
              ELSE campaignData.results[i].success

\* C4: results[i] of the returned campaign carries the i-th recipient and the
\* outcome of that recipient's own send, in whatever order the sends settled.
C4_ResultsInInputOrder ==
    sendPc \in {"saving", "returned"} =>
        /\ Len(campaignData.results) = Len(phone_numbers)
        /\ \A i \in 1..Len(phone_numbers) :
              /\ campaignData.results[i].phoneNumber = phone_numbers[i]
              /\ campaignData.results[i].success = responses[i].resolved
              /\ campaignData.results[i].messageId
                    = (IF responses[i].resolved THEN MessageIds[i] ELSE JsUndefined)
              /\ campaignData.results[i].error
                    = (IF responses[i].resolved THEN JsUndefined
                       ELSE IF responses[i].dataError # JsUndefined
                            THEN responses[i].dataError ELSE responses[i].message)

\* C4 witness: a call returned whose second recipient, another number, was
\* answered before the first, one of the two sends failing.
C4_Witness ==
    /\ sendPc = "returned"
    /\ outOfOrder
    /\ Len(phone_numbers) >= 2
    /\ phone_numbers[1] # phone_numbers[2]
    /\ responses[1].resolved # responses[2].resolved

\* C10: once saveCampaign has run, whichever of its steps failed, the call
\* has returned, not raised, and what it returned is the campaign built from
\* the results, the same as when the record was stored.
C10_SaveFailureSwallowed ==
    saveFailedAt # "not called" =>
        /\ sendPc = "returned"
        /\ returnValue = campaignData
        /\ returnValue.results = PromiseAll(sendPromises)
        /\ Tallied(returnValue, Len(phone_numbers))
        /\ saveFailedAt # "none" => campaigns[sendProject].docs = <<>>

\* C10 witness: a call returned its campaign although the insert failed.
C10_Witness ==
    /\ sendPc = "returned"
    /\ saveFailedAt = "insertOne"
    /\ campaigns[sendProject].docs = <<>>
    /\ Len(returnValue.results) >= 1

(***************************************************************************)
(* Properties of the metrics engine.                                       *)
(***************************************************************************)
Recognized(metric) == metric.type \in MetricCases
\* The requested metrics whose type is recognized and whose read did not fail.
Computed ==
    {i \in 1..Len(metricPromises) :
        Recognized(requestedMetrics[i]) /\ readFailedAt[i] = "none"}
ComputedFor(key) == {i \in Computed : MetricKey(requestedMetrics[i]) = key}
Latest(S) == CHOOSE i \in S : \A j \in S : j <= i
ValueOf(i) ==
    MetricValue(campaigns[metricsProject], requestedMetrics[i], metricsFilters)

\* C9, as amended: a processMetrics call that has a projectId returns
\* normally, and its output holds an entry under a key if and only if some
\* requested metric with that key has a recognized type and a computation
\* that did not fail; the value under the key is the one computed for the
\* last such metric, whatever became of the other metrics.
C9_EntryIffSomeMetricOfKeyComputed ==
    /\ metricsProject # "" => metricsPc # "raised"
    /\ metricsPc = "returned" =>
          /\ DOMAIN stats = {MetricKey(requestedMetrics[i]) : i \in Computed}
          /\ \A key \in DOMAIN stats : stats[key] = ValueOf(Latest(ComputedFor(key)))

\* C9 witness: a call returned after the read of one metric failed and the read
\* of another metric of the same key did not; the key is in the output.
C9_Witness ==
    /\ metricsPc = "returned"
    /\ Len(requestedMetrics) = 2
    /\ MetricKey(requestedMetrics[1]) = MetricKey(requestedMetrics[2])
    /\ readFailedAt[1] # "none"
    /\ readFailedAt[2] = "none"
    /\ MetricKey(requestedMetrics[1]) \in DOMAIN stats
    /\ stats[MetricKey(requestedMetrics[1])] > 0

\* C9, as stated: the output holds an entry for a requested metric if and
\* only if that metric's type is recognized and its computation did not fail.
C9_EntryIffMetricComputed ==
    /\ metricsProject # "" => metricsPc # "raised"
    /\ metricsPc = "returned" =>
          \A i \in 1..Len(metricPromises) :
              MetricKey(requestedMetrics[i]) \in DOMAIN stats <=> i \in Computed

(***************************************************************************)
(* Properties of the read functions.  A campaign matches a filter set as   *)
(* the specification defines it; a filter set is well formed when its      *)
(* dateRange, if any, is a pair of two instants.                           *)
(***************************************************************************)
StoreOf(projectId) == campaigns[projectId].docs
WellFormed(filters) ==
    "dateRange" \in DOMAIN filters =>
        /\ Len(filters.dateRange) = 2
        /\ filters.dateRange[1] # 0
        /\ filters.dateRange[2] # 0
EqualityFields == {"campaignId", "campaignName", "templateName", "fromPhoneNumber"}
CampaignField(f) == IF f = "campaignId" THEN "_id" ELSE f
Day(t) == (t - 1) \div TicksPerDay
LastInstantOfDay(t) ==
    CHOOSE u \in 1..(t + TicksPerDay) :
        /\ Day(u) = Day(t)
        /\ \A v \in 1..(t + TicksPerDay) : Day(v) = Day(t) => v <= u
MatchesFilterSet(campaign, filters) ==
    /\ \A f \in EqualityFields :
          (f \in DOMAIN filters /\ filters[f] # "") =>
              /\ CampaignField(f) \in DOMAIN campaign
              /\ campaign[CampaignField(f)] = filters[f]
    /\ "dateRange" \in DOMAIN filters =>
          /\ "dateTime" \in DOMAIN campaign
          /\ filters.dateRange[1] <= campaign.dateTime
          /\ campaign.dateTime <= LastInstantOfDay(filters.dateRange[2])
MatchingCampaigns(projectId, filters) ==
    {c \in 1..Len(StoreOf(projectId)) : MatchesFilterSet(StoreOf(projectId)[c], filters)}
MatchingResults(projectId, filters) ==
    UNION {{<<c, r>> : r \in 1..Len(StoreOf(projectId)[c].results)} :
              c \in MatchingCampaigns(projectId, filters)}
ResultAt(projectId, p) == StoreOf(projectId)[p[1]].results[p[2]]
AnswersOf(result) == Field(result, "answers", <<>>)
Called(fn) == answer.fn = fn /\ ~answer.raised /\ WellFormed(answer.filters)
TrimmedPhones(projectId, S) ==
    {Trim(ResultAt(projectId, p).phoneNumber) : p \in S}

\* The results that qualify for replies under a text filter.
TextQualifying(projectId, filters, textFilter) ==
    {p \in MatchingResults(projectId, filters) :
        /\ ResultAt(projectId, p).phoneNumber # ""
        /\ \E a \in 1..Len(AnswersOf(ResultAt(projectId, p))) :
              LowerTrim(AnswersOf(ResultAt(projectId, p))[a].messageText)
                  = LowerTrim(textFilter)}

\* C11: replies with a text filter is the number of distinct trimmed phone
\* numbers that have, in a matching campaign, a result with an answer whose
\* text equals the filter text after trimming and case-folding both; each
\* such phone number counts once.
C11_RepliesWithTextFilter ==
    (Called("getReplies") /\ answer.textFilter # "") =>
        answer.value = Cardinality(TrimmedPhones(answer.projectId,
                           TextQualifying(answer.projectId, answer.filters,
                                          answer.textFilter)))

\* C11 witness: a phone number qualifies by results of two campaigns, one of them
\* next to a longer answer that only contains the text, and is counted once.
C11_Witness ==
    /\ Called("getReplies")
    /\ answer.textFilter = " YES "
    /\ answer.value = 1
    /\ \E p, q \in TextQualifying(answer.projectId, answer.filters, answer.textFilter) :
          p[1] # q[1]
    /\ \E p \in MatchingResults(answer.projectId, answer.filters) :
          ResultAt(answer.projectId, p) = LongerAnswer

\* The results that qualify for replies without a text filter, the status
\* compared as written or after trimming and case-folding.
AnsweredExactly(result) ==
    Field(result, "status", "") = "answered" \/ Len(AnswersOf(result)) > 0
AnsweredFolded(result) ==
    LowerTrim(Field(result, "status", "")) = "answered" \/ Len(AnswersOf(result)) > 0
RepliersExactly(projectId, filters) ==
    TrimmedPhones(projectId,
        {p \in MatchingResults(projectId, filters) :
            /\ ResultAt(projectId, p).phoneNumber # ""
            /\ AnsweredExactly(ResultAt(projectId, p))})
RepliersFolded(projectId, filters) ==
    TrimmedPhones(projectId,
        {p \in MatchingResults(projectId, filters) :
            /\ ResultAt(projectId, p).phoneNumber # ""
            /\ AnsweredFolded(ResultAt(projectId, p))})

\* C12, as amended: replies without a text filter is the number of distinct
\* trimmed phone-number strings, compared case-sensitively, over the results
\* of matching campaigns whose status is "answered" after trimming and
\* case-folding or whose answers list is non-empty; results without a phone
\* number contribute nothing.
C12_RepliesFoldedStatus ==
    (Called("getReplies") /\ answer.textFilter = "") =>
        answer.value = Cardinality(RepliersFolded(answer.projectId, answer.filters))

\* C12 witness: two phone numbers that differ in case only are both counted, one
\* of them for a status that is "answered" only after folding, next to a
\* result without a phone number.
C12_Witness ==
    /\ Called("getReplies")
    /\ answer.textFilter = ""
    /\ answer.value = 2
    /\ RepliersFolded(answer.projectId, answer.filters) = {"+100a", "+100A"}
    /\ \E p \in MatchingResults(answer.projectId, answer.filters) :
          ResultAt(answer.projectId, p) = NoPhoneYes

\* C12, as stated: the status is exactly "answered".
C12_RepliesExactStatus ==
    (Called("getReplies") /\ answer.textFilter = "") =>
        answer.value = Cardinality(RepliersExactly(answer.projectId, answer.filters))

\* The failed entries of the matching campaigns.
FailedEntries(projectId, filters) ==
    {p \in MatchingResults(projectId, filters) :
        \/ Field(ResultAt(projectId, p), "success", TRUE) = FALSE
        \/ Field(ResultAt(projectId, p), "status", "") = "failed"}

\* C13: errors is the number of result entries of matching campaigns with
\* success = false or status = "failed", not deduplicated by phone number.
C13_ErrorsCountEntries ==
    Called("getErrors") =>
        answer.value = Cardinality(FailedEntries(answer.projectId, answer.filters))

\* C13 witness: three failed entries of one phone number, in two campaigns,
\* count three.
C13_Witness ==
    /\ Called("getErrors")
    /\ answer.value = MaxResults + 1
    /\ TrimmedPhones(answer.projectId,
                     FailedEntries(answer.projectId, answer.filters)) = {"+1000"}

\* C14: views is the number of distinct phone numbers, trimmed, over the
\* results of matching campaigns that have a phone number and a readDateTime.
C14_ViewsDistinctPhones ==
    Called("getViews") =>
        answer.value =
            Cardinality(TrimmedPhones(answer.projectId,
                {p \in MatchingResults(answer.projectId, answer.filters) :
                    /\ ResultAt(answer.projectId, p).phoneNumber # ""
                    /\ Field(ResultAt(answer.projectId, p), "readDateTime", "") # ""}))

\* C14 witness: one phone number read in results of two campaigns counts once.
C14_Witness ==
    /\ Called("getViews")
    /\ answer.value = 1
    /\ \E p, q \in MatchingResults(answer.projectId, answer.filters) :
          /\ p[1] # q[1]
          /\ ResultAt(answer.projectId, p) = SpacedPhoneYes
          /\ ResultAt(answer.projectId, q) = SpacedPhoneYes

RECURSIVE TotalOver(_, _)
TotalOver(docs, S) ==
    IF S = {} THEN 0
    ELSE LET c == CHOOSE c \in S : TRUE
         IN  docs[c].total + TotalOver(docs, S \ {c})

\* C15: messagesSent is the sum of total over exactly the campaigns of the
\* project that match the filter set, 0 when none matches.
C15_MessagesSentSumsTotals ==
    Called("getMessagesSent") =>
        answer.value = TotalOver(StoreOf(answer.projectId),
                                 MatchingCampaigns(answer.projectId, answer.filters))

\* C15 witness: the totals of two matching campaigns are summed and the total of
\* a third campaign, which does not match, is left out.
C15_Witness ==
    /\ Called("getMessagesSent")
    /\ Cardinality(MatchingCampaigns(answer.projectId, answer.filters)) = 2
    /\ Len(StoreOf(answer.projectId)) = 3
    /\ answer.value = 2
    /\ \A c \in 1..3 : StoreOf(answer.projectId)[c].total > 0

\* C16: campaignsTotal counts exactly the campaigns whose fields equal every
\* equality field present in the filter set and whose dateTime lies between
\* the start and the end of day of the end of the dateRange, if present.
C16_CampaignsTotalCountsMatches ==
    Called("getCampaignsTotal") =>
        answer.value = Cardinality(MatchingCampaigns(answer.projectId, answer.filters))

\* C16 witness: under a dateRange and a campaign name, a campaign dated after the
\* end instant but on its day is counted, and one of another name is not.
C16_Witness ==
    /\ Called("getCampaignsTotal")
    /\ answer.filters = [dateRange |-> <<1, 1>>, campaignName |-> "promo"]
    /\ Len(StoreOf(answer.projectId)) = 3
    /\ answer.value = 2

(***************************************************************************)
(* Further properties of the dashboard manager.                            *)
(***************************************************************************)
\* C17: in every stored dashboard the report ids are pairwise distinct,
\* also after calls whose request supplies report _id values.
C17_ReportIdsDistinct ==
    \A d \in DashboardIds :
        dashboards[d].stored =>
            \A i, j \in 1..Len(dashboards[d].reports) :
                i # j => dashboards[d].reports[i]._id # dashboards[d].reports[j]._id

\* C18: the i-th report of every stored dashboard has position i.
C18_StoredInPositionOrder ==
    \A d \in DashboardIds :
        dashboards[d].stored =>
            \A i \in 1..Len(dashboards[d].reports) :
                dashboards[d].reports[i].position = Num(i)

\* The last call was a create, an update or an add-report that threw a
\* validation failure.
ValidationFailed ==
    /\ last.op \in {"createDashboard", "updateDashboard", "addReportToDashboard"}
    /\ last.error # NoError
    /\ last.error \notin {<<"Dashboard ID is required">>, <<"Project ID is required">>,
                          <<"Project not found">>, <<"Dashboard not found">>, AccessDenied}

\* C19: every validation failure of create, update or add-report is
\* answered with status 400.
C19_ValidationFailuresAnswered400 ==
    ValidationFailed => RouteStatus(last.op, last.error) = 400

(***************************************************************************)
(* Properties of the campaign store.                                       *)
(***************************************************************************)
\* What the metrics and getCampaigns return for a project on a database.
MetricReads(db, projectId) ==
    [m \in MetricSpecs \X FilterSets |->
        processMetric(campaignsCollection(db, projectId), m[1], m[2], "none")]
CampaignReads(db, projectId) ==
    [q \in CampaignIdInputs \X CampaignNameInputs |->
        getCampaigns(campaignsCollection(db, projectId), q[1], q[2])]

\* C20: a step of a dispatch for project P leaves the campaigns of every
\* other project as they are, and with them what every metric and every
\* getCampaigns call returns for that project.
C20_ProjectsIsolated ==
    [][campaigns' # campaigns =>
          \A q \in ProjectIds \ {sendProject} :
              /\ campaigns'[q] = campaigns[q]
              /\ MetricReads(campaigns', q) = MetricReads(campaigns, q)
              /\ CampaignReads(campaigns', q) = CampaignReads(campaigns, q)]_vars

\* C20 witness: a dispatch for p1 has stored its campaign next to the one p1
\* held, while p2 holds a campaign that its metrics count.
C20_Witness ==
    /\ sendPc = "returned"
    /\ saveFailedAt = "none"
    /\ sendProject = "p1"
    /\ Len(campaigns["p1"].docs) = 2
    /\ campaigns["p2"].docs = <<PlainCampaign>>
    /\ getMessagesSent(campaignsCollection(campaigns, "p2"), NoFilters) = 1
    /\ Len(getCampaigns(campaignsCollection(campaigns, "p1"), "", "")) = 2

(***************************************************************************)
(* Properties of createDashboard and normalizeReports.                     *)
(***************************************************************************)
\* C29: when createDashboard(P, ...) has returned dashboard id d, d is in the
\* dashboards membership of project P, so that getDashboardById(d, P) is not
\* denied.
C29_CreatedDashboardInMembership ==
    (last.op = "createDashboard" /\ last.error = NoError) =>
        /\ last.projectId \in DOMAIN projects
        /\ last.ret._id \in projects[last.projectId]

\* The smallest positive integer that is no position of S.
SmallestUnused(S) ==
    CHOOSE n \in 1..(Cardinality(S) + 1) :
        Num(n) \notin S /\ \A m \in 1..(n - 1) : Num(m) \in S
\* The positions of the first k reports of a batch, each absent position being
\* the smallest positive integer no earlier report of the batch has.
RECURSIVE Assigned(_, _)
Assigned(batch, k) ==
    IF k = 0 THEN <<>>
    ELSE LET earlier == Assigned(batch, k - 1)
         IN  Append(earlier, IF batch[k].position = Undefined
                             THEN Num(SmallestUnused(SeqRange(earlier)))
                             ELSE batch[k].position)
\* Every report has a valid name, type and metrics, and every position given
\* is a positive integer.
WellShaped(batch) ==
    \A i \in 1..Len(batch) :
        /\ ValidShape(batch[i])
        /\ batch[i].position # Undefined =>
              IsInteger(batch[i].position) /\ batch[i].position.twice >= 2
\* A report gives a position that an earlier report of the batch has, given
\* or assigned.
RepeatsEarlier(batch) ==
    \E j \in 1..Len(batch) :
        /\ batch[j].position # Undefined
        /\ batch[j].position \in SeqRange(Assigned(batch, j - 1))

\* C27: in a create or update of a well-shaped batch, a report without a
\* position is stored with the smallest positive integer no earlier report of
\* the batch has; a batch without any position succeeds with positions 1..N in
\* input order; a report that gives a position an earlier report has, also one
\* assigned automatically, makes the call fail with "Position already exists".
C27_AutoPositionSmallestUnused ==
    [][(/\ last'.op \in {"createDashboard", "updateDashboard"}
        /\ (last'.op = "updateDashboard" =>
               /\ Member(last'.projectId, last'.dashboardId)
               /\ dashboards[last'.dashboardId].stored)
        /\ WellShaped(last'.reports))
       => LET batch == last'.reports
              failed == last'.error # NoError
              stored == dashboards'[last'.dashboardId].reports
              expected == Assigned(batch, Len(batch))
          IN  /\ (\A i \in 1..Len(batch) : batch[i].position = Undefined)
                    => /\ ~failed
                       /\ \A i \in 1..Len(batch) : stored[i].position = Num(i)
              /\ RepeatsEarlier(batch)
                    => last'.error = <<"Report at index", "Position already exists">>
              /\ (~RepeatsEarlier(batch) /\ SeqRange(expected) = OneTo(Len(batch)))
                    => ~failed
              /\ ~failed => /\ Len(stored) = Len(batch)
                            /\ \A i \in 1..Len(batch) :
                                  stored[i].position = expected[i]]_vars

\* C27 witness: a batch whose first report gives position 3 and whose other
\* two give none was stored with positions 3, 1, 2.
C27_Witness ==
    /\ last.op \in {"createDashboard", "updateDashboard"}
    /\ last.error = NoError
    /\ Len(last.reports) = 3
    /\ last.reports[1].position = Num(3)
    /\ last.reports[2].position = Undefined
    /\ last.reports[3].position = Undefined
    /\ ExistingPositions(dashboards[last.dashboardId].reports) = <<Num(3), Num(1), Num(2)>>

\* C27 second case: a report that gives position 1 after a report that was
\* assigned position 1 was rejected.
C27_DuplicateOfAssigned ==
    /\ last.op \in {"createDashboard", "updateDashboard"}
    /\ Len(last.reports) = 2
    /\ last.reports[1].position = Undefined
    /\ last.reports[2].position = Num(1)
    /\ last.error = <<"Report at index", "Position already exists">>

(***************************************************************************)
(* Further properties of the campaign dispatcher.                          *)
(***************************************************************************)
\* C22: within one sendTemplateMessages call the provider send is issued
\* exactly once per recipient, whether it succeeded or failed, and insertOne is
\* called at most once: once when saveCampaign reached it, whether it
\* succeeded or failed, and never again.
C22_NoRetries ==
    sendPc # "idle" =>
        /\ Len(sendAttempts.posts) = Len(phone_numbers)
        /\ \A i \in 1..Len(phone_numbers) : sendAttempts.posts[i] = 1
        /\ sendAttempts.inserts <= 1
        /\ saveFailedAt \in {"none", "insertOne"} => sendAttempts.inserts = 1
        /\ sendPc \in {"awaitAll", "saving", "raised"} => sendAttempts.inserts = 0

\* C22 witness: a call returned after the send of a recipient had failed and
\* the insert had failed.
C22_Witness ==
    /\ sendPc = "returned"
    /\ saveFailedAt = "insertOne"
    /\ sendAttempts.inserts = 1
    /\ \E i \in 1..Len(phone_numbers) :
          ~responses[i].resolved /\ sendAttempts.posts[i] = 1

\* Every provider call of the running call has settled.
AllSettled ==
    /\ sendPc = "awaitAll"
    /\ \A i \in 1..Len(phone_numbers) : responses[i] # NoResponseYet
\* While the call waits, every provider call has been started; the record is
\* built and the save runs only when every provider call has settled.
Barrier ==
    /\ sendPc = "awaitAll" =>
          /\ Len(sendPromises) = Len(phone_numbers)
          /\ \A i \in 1..Len(phone_numbers) : sendAttempts.posts[i] = 1
    /\ (sendPc \in {"saving", "returned"} \/ campaignData # NoCampaign) =>
          \A i \in 1..Len(phone_numbers) :
              responses[i] # NoResponseYet /\ sendPromises[i].state # "pending"
\* A step that writes the store is taken when no provider call is in flight.
WriteAfterBarrier ==
    campaigns' # campaigns =>
        \A i \in 1..Len(phone_numbers) : responses[i] # NoResponseYet

\* C23: all N provider calls are started before the call waits, the record is
\* built and the store written only after all N have settled, no store write
\* happens while a provider call is in flight, and once every provider call
\* has settled the call eventually returns.
C23_BarrierThenReturns ==
    /\ []Barrier
    /\ [][WriteAfterBarrier]_vars
    /\ (AllSettled ~> sendPc = "returned")

\* The same with completion in place of return: once every provider call has
\* settled the call eventually returns or raises.
C23_BarrierThenCompletes ==
    /\ []Barrier
    /\ [][WriteAfterBarrier]_vars
    /\ (AllSettled ~> sendPc \in {"returned", "raised"})
\* Once every provider call has settled without a rejected callback, the call
\* eventually returns.
C23_FulfilledLeadsToReturn ==
    (AllSettled /\ \A i \in 1..Len(sendPromises) : sendPromises[i].state = "fulfilled")
        ~> sendPc = "returned"

(***************************************************************************)
(* Properties of calls that run side by side.                              *)
(***************************************************************************)
\* Caller c has returned from a call of operation op without an error.
Succeeded(c, op) ==
    /\ mutations[c].pc = "returned"
    /\ mutations[c].op = op
    /\ mutations[c].error = NoError

\* C24: a mutation replaces the stored reports by the list it computed from
\* the array it read, whatever is stored when it writes; so two calls that
\* read the same array can both succeed while the stored list reflects one
\* of them only.
C24_WriteReplacesWhatWasRead ==
    [][\A c \in MutationIds :
          (mutations[c].pc = "updateOne" /\ mutations'[c].pc = "findOne") =>
              /\ dashboards'[mutations[c].dashboardId].reports = mutations[c].toStore
              /\ mutations[c].op = "addReportToDashboard" =>
                    Len(mutations[c].toStore) = Len(mutations[c].existingReports) + 1
              /\ mutations[c].op = "removeReportFromDashboard" =>
                    Len(mutations[c].toStore) = Len(mutations[c].existingReports) - 1]_vars

\* C24 witness: two add-report calls on a dashboard of N = 2 reports both
\* returned without an error, and the dashboard holds N + 1 = 3 reports.
C24_Witness ==
    /\ Succeeded(1, "addReportToDashboard")
    /\ Succeeded(2, "addReportToDashboard")
    /\ mutations[1].calls = 1
    /\ mutations[2].calls = 1
    /\ mutations[1].dashboardId = "d1"
    /\ mutations[2].dashboardId = "d1"
    /\ mutations[1].existingReports = SeedReports
    /\ mutations[2].existingReports = SeedReports
    /\ Len(dashboards["d1"].reports) = 3

\* C28: whatever the interleaving of update, add-report and remove-report
\* calls on a dashboard, every list stored for it, and every list a call is
\* about to store, has positions exactly {1..N} for its own length N.
C28_RacesKeepPositionsContiguous ==
    /\ \A d \in DashboardIds :
          LET stored == dashboards[d].reports
          IN  {stored[i].position : i \in 1..Len(stored)} = {Num(i) : i \in 1..Len(stored)}
    /\ \A c \in MutationIds :
          LET toStore == mutations[c].toStore
          IN  {toStore[i].position : i \in 1..Len(toStore)}
                  = {Num(i) : i \in 1..Len(toStore)}

\* C28 witness: a remove-report and an add-report that read the same two
\* reports both returned, and the list of the remove-report, written last, is
\* the one stored: the added report is lost.
C28_Witness ==
    /\ \E c, e \in MutationIds :
          /\ Succeeded(c, "removeReportFromDashboard")
          /\ Succeeded(e, "addReportToDashboard")
          /\ mutations[c].existingReports = SeedReports
          /\ mutations[e].existingReports = SeedReports
          /\ dashboards["d1"].reports = mutations[c].toStore
    /\ Len(dashboards["d1"].reports) = 1

\* C25: for any interleaving of saveCampaign calls for one project, the
\* collection is created by one call at most, and every call that has ended
\* has inserted its campaign into the collection of its project.
C25_CreatedOnceAllInserted ==
    /\ \A p \in ProjectIds :
          Cardinality({c \in SaveCallIds : saves[c].projectId = p /\ saves[c].created}) <= 1
    /\ \A c \in SaveCallIds :
          saves[c].pc = "done" =>
              /\ campaigns[saves[c].projectId].exists
              /\ Includes(campaigns[saves[c].projectId].docs, saves[c].campaignData)

\* The same for the calls whose createCollection did not throw.
C25_InsertedUnlessCreateThrew ==
    /\ \A p \in ProjectIds :
          Cardinality({c \in SaveCallIds : saves[c].projectId = p /\ saves[c].created}) <= 1
    /\ \A c \in SaveCallIds :
          (saves[c].pc = "done" /\ saves[c].threw = "none") =>
              /\ campaigns[saves[c].projectId].exists
              /\ Includes(campaigns[saves[c].projectId].docs, saves[c].campaignData)

(***************************************************************************)
(* Properties of the store under a dispatch, a processMetrics call and a   *)
(* getCampaigns call that run side by side.                                *)
(***************************************************************************)
IsPrefix(s, t) == Len(s) <= Len(t) /\ \A i \in 1..Len(s) : t[i] = s[i]

\* C21: no step modifies or removes a campaign that is in the store; the
\* steps of processMetrics and of getCampaigns leave the whole store as it
\* is; the only step that changes the store is the save of a dispatch, which
\* appends the record of the dispatch to the collection of its project.
C21_CampaignsWriteOnce ==
    [][/\ \A p \in ProjectIds : IsPrefix(campaigns[p].docs, campaigns'[p].docs)
       /\ metricVars' # metricVars => campaigns' = campaigns
       /\ \A p \in ProjectIds :
             campaigns'[p].docs # campaigns[p].docs =>
                 /\ sendPc = "saving" /\ sendPc' = "returned"
                 /\ p = sendProject
                 /\ campaigns'[p].docs = Append(campaigns[p].docs, campaignData)]_vars

\* C21 witness: a dispatch has stored its campaign after the one the project
\* held, a processMetrics call has returned statistics and a getCampaigns
\* call has answered.
C21_Witness ==
    /\ sendPc = "returned"
    /\ saveFailedAt = "none"
    /\ campaigns["p1"].docs = <<PromoCampaign, returnValue>>
    /\ metricsPc = "returned"
    /\ DOMAIN stats # {}
    /\ answer.fn = "getCampaigns"
    /\ ~answer.raised

\* The key of a metric as the specification defines it.
KeyOf(metric) ==
    IF metric.type = "replies" /\ "text" \in DOMAIN metric /\ metric.text # ""
    THEN "replies:" \o metric.text
    ELSE metric.type
\* The requested metrics whose computation yielded a value.
Yielded == {i \in 1..Len(metricPromises) : ~metricPromises[i].value.isNull}
LastOfKey(S, key) ==
    CHOOSE i \in S : KeyOf(requestedMetrics[i]) = key
                     /\ \A j \in S : KeyOf(requestedMetrics[j]) = key => j <= i

\* C26, as amended: the keys of the output are the keys of the metrics that
\* yielded a value, the key being the type, or "replies:<text>" for replies
\* with a text; the value under a key is that of the last metric of the
\* request list with that key that yielded a value, whatever the order in
\* which the computations completed.
C26_LastYieldedOfKeyWins ==
    metricsPc = "returned" =>
        /\ DOMAIN stats = {KeyOf(requestedMetrics[i]) : i \in Yielded}
        /\ \A key \in DOMAIN stats :
              stats[key] = metricPromises[LastOfKey(Yielded, key)].value.value

\* C26 witness: of two messagesSent metrics the second completed before a
\* dispatch stored its campaign and the first after it, and the output holds
\* the value of the second.
C26_Witness ==
    /\ metricsPc = "returned"
    /\ Len(requestedMetrics) = 2
    /\ requestedMetrics[1] = [type |-> "messagesSent"]
    /\ requestedMetrics[2] = [type |-> "messagesSent"]
    /\ Yielded = {1, 2}
    /\ metricPromises[2].value.value < metricPromises[1].value.value
    /\ stats["messagesSent"] = metricPromises[2].value.value

\* C26 as stated: when two requested metrics have the same key, the value
\* under that key is that of the one later in the request list.
C26_LaterOfKeyWins ==
    metricsPc = "returned" =>
        \A i, j \in 1..Len(requestedMetrics) :
            (/\ i < j
             /\ KeyOf(requestedMetrics[i]) = KeyOf(requestedMetrics[j])
             /\ \A k \in (j + 1)..Len(requestedMetrics) :
                   KeyOf(requestedMetrics[k]) # KeyOf(requestedMetrics[j])
             /\ KeyOf(requestedMetrics[j]) \in DOMAIN stats)
            => /\ j \in Yielded
               /\ stats[KeyOf(requestedMetrics[j])] = metricPromises[j].value.value

\* C30: when a response holds messagesSent and campaignsTotal, messagesSent
\* is the sum of total over the campaigns that campaignsTotal counted: the
\* first campaignsTotal campaigns of the project, the store being append-only
\* and the call without filters.
C30_MetricsOverOneSetOfCampaigns ==
    (/\ metricsPc = "returned"
     /\ metricsFilters = NoFilters
     /\ {"messagesSent", "campaignsTotal"} \subseteq DOMAIN stats)
    => stats["messagesSent"]
           = TotalOver(campaigns[metricsProject].docs, 1..stats["campaignsTotal"])

====
